---- MODULE Spec2Model ----
(***************************************************************************)
(* Model of the ender-deploy control plane: instance lifecycle             *)
(* (PerformServerAction, pollForRconReady), the stat updater               *)
(* (reconciler), the websocket hub, the backup engine, the zip extractor   *)
(* and the scheduler.                                                      *)
(***************************************************************************)
EXTENDS Integers, Sequences, FiniteSets, TLC

\* ------------------------------------------------------------------------
\* Bounds of the model
\* ------------------------------------------------------------------------
MaxActions == 2      \* PerformServerAction calls in one behaviour
MaxProbers == 2      \* readiness probers alive at once
MaxRecTicks == 1     \* reconciler ticks in one behaviour
MaxRecTasks == 1     \* reconciler per-server tasks in flight at once
ExtraFrames == 1     \* broadcasts beyond the capacity of an outbox
MaxLag == 1          \* frames a reading session lets wait when the next one is produced
MaxJoin == 0         \* sessions connect, and leave undropped, within the first MaxJoin broadcasts
MaxBackups == 2      \* CreateBackup calls in one behaviour
MaxFiles == 2        \* files of the working tree the archive walk visits
MaxEntries == 2      \* entries of an archive that is extracted
MaxDepth == 2        \* path components of an archive entry name
Minute == 2          \* clock units in a minute
MaxTime == 4         \* minutes the clock runs
MaxSchedules == 1    \* schedule rows
MaxEdits == 2        \* CreateSchedule and UpdateSchedule calls in one behaviour
MaxInstances == 2    \* instance identifiers generated in one behaviour
MaxTasks == 2        \* executeTask goroutines in one behaviour
MaxRestores == 2     \* RestoreBackup calls in one behaviour
MaxStreams == 2      \* subscribe_docker_logs messages of one session
MaxCmds == 2         \* console commands in one behaviour

\* ------------------------------------------------------------------------
\* Program constants
\* ------------------------------------------------------------------------
MaxFileCalls == 2    \* accepted ListFiles, GetFileContent and UpdateFileContent calls in one behaviour
MaxTreeDepth == 2    \* directory levels of a working tree that is archived
MaxNodes == 3        \* files and directories of a working tree that is archived
MaxStale == 1        \* files and directories in the working tree when the restore begins
MaxKeyLen == 1       \* characters of a settings key
MaxValueLen == 2     \* characters of a settings value
MaxSettings == 1     \* entries of a settings map
MaxPorts == 3        \* ports below the end of the port range that processes of the host bind
MaxPortCalls == 2    \* FindAvailablePort calls in one behaviour
MaxLines == 1        \* lines of container output a session's log streams deliver
MaxAlertTasks == 2   \* update tasks of one instance in checkAndAlertForHighCPU at once
MaxAlertTime == 3    \* the time passes up to here
MaxAlerts == 2       \* system.alert.cpu events in one behaviour
MaxArchiveTime == 3  \* ticks that pass while backups are created and deleted
MaxNamedBackups == 3 \* CreateBackup calls of the instance that reach os.Create

Statuses == {"offline", "starting", "online", "stopping", "error"}
ActionNames == {"start", "stop", "restart", "reinstall", "pause"}

VARIABLES
    \* --- catalogue row of the instance and its container ---
    status,      \* servers.status
    container,   \* "running" | "exited" | "gone" (state of the docker container)
    rconBound,   \* TRUE iff the container publishes 25575/tcp
    history,     \* the resource_history rows of the instance, oldest first
    events,      \* the events table, in insertion order (event types)
    bcast,       \* frames the last step handed to hub.Broadcast (status of each server_update)
    \* --- PerformServerAction in flight ---
    pa,          \* [pc |-> "idle"] or the call between its docker call and its DB update
    nActions,    \* calls made so far
    \* --- readiness probers ---
    probers,     \* prober id -> [pc, dials, result, born]; dials: a dial of it has failed and
                 \* it polls on or ended at its deadline; born: its place in the start order
    \* --- reconciler ---
    recTasks,    \* task id -> [pc, snap]: the copy of the row the goroutine holds
    nRecTicks,   \* ticks of the reconciler so far
    \* --- websocket hub and its sessions ---
    clients,        \* Hub.clients: the sessions registered
    subscriptions,  \* Hub.subscriptions: topic -> sessions (a topic without sessions is absent)
    outbox,         \* session -> the frames buffered in Client.Send
    closed,         \* session -> Client.Send has been closed
    phase,          \* session -> "new" | "registering" | "open" | "closing" | "ended"
    pending,        \* the frame a producer blocked in hub.Broadcast <- msg holds, 0 if none
    nFrames,        \* frames the hub loop has taken from Hub.Broadcast
    taken,          \* session -> the last frame its write pump took (frames before it joined count as taken)
    stalled,        \* the sessions whose consumer never reads
    \* --- BackupService.CreateBackup ---
    bk,          \* the CreateBackup call in progress
    cmds,        \* the SendCommandToServer calls the current CreateBackup made: <<command, outcome>>
    archive,     \* the archive file of the current call: "none" | "open" | "written" | "removed"
    backupRows,  \* rows of the backups table
    nBackups,    \* CreateBackup calls so far
    \* --- archive extraction (RestoreBackup, unzip) ---
    zop,         \* the extraction in progress: "none" | "restore" | "unzip"
    zres,        \* "idle" | "running" | "rejected" | "ioFailed" | "done"
    zpos,        \* archive entries processed
    zlast,       \* the name of the entry processed last
    written,     \* the paths created or written by the extraction
    \* --- scheduler ---
    clock,       \* the wall clock, in units of 1/Minute of a minute
    started,     \* Scheduler.Run has begun
    nextTick,    \* the time the ticker fires next
    sched,       \* schedule id -> row of the schedules table
    fired,       \* schedule id -> executeTask goroutines spawned by the step
    nEdits,      \* CreateSchedule and UpdateSchedule calls so far
    schedules,   \* rows selected by the running checkAndRunSchedules, not yet visited
    startedAt,   \* the time at which Scheduler.Run was called
    \* --- provisioning and deletion of instances ---
    inst,        \* instance id -> [row, dir, ctr, game, rcon, kids]
    nextId,      \* the identifier the next create call generates
    provLast,    \* the call that returned last: [op, id, ok], and [failed, returned, tree] of a create
    pendingUpdate, \* the instances of which an UpdateServerStats call committed and has not broadcast yet
    \* --- Scheduler.executeTask ---
    task,        \* the executeTask goroutine: [pc, kind, payloadOk, err, outcome]
    nTasks,      \* executeTask goroutines spawned so far
    \* --- BackupService.RestoreBackup ---
    rs,          \* the RestoreBackup call: [pc, up, stopped, wiped, extracted, lost, started, res]
    nRestores,   \* RestoreBackup calls so far
    \* --- docker log streams of the websocket handler ---
    streams,          \* session -> the states of the StreamServerLogs goroutines started for it
    logStreamCancels, \* session -> the stream whose cancel function the map holds, 0 for no entry
    sendOnClosed,     \* the sessions on whose closed outbox a goroutine executed a send
    \* --- console commands ---
    cmd,         \* the command call that returned last: [n, by, kind, res, inspected, dialed]
    nCmds,       \* command calls so far
    \* --- file manager ---
    touched,     \* the <<call, path>> pairs the file calls handed to the file system
    \* --- backup round trip ---
    rt,          \* a working tree, the archive made of it and the tree a restore leaves
    \* --- server.properties ---
    properties,  \* the content of server.properties, a string of characters
    sc,          \* the settings calls so far: [pc, put, res, got]
    \* --- host ports ---
    busy,        \* the ports of the host on which a bind fails
    allocs,      \* the FindAvailablePort calls so far: [base, port], port 0 for the error
    \* --- high-CPU alerts of the reconciler ---
    alertNow,      \* the time, in units of which AlertCooldown is a multiple
    highCpuAlert,  \* StatUpdater.highCpuAlert[id] of one instance, Never for no entry
    cpuAlerts,     \* the system.alert.cpu events of the instance: [at, cpu], oldest first
    cpuTasks,      \* update task -> [pc, cpu], its place in checkAndAlertForHighCPU
    \* --- archive files of the backups of one instance ---
    archiveNow,    \* the time in ticks, TicksPerSecond of them to the second
    archiveFiles,  \* the archive files in the backup directory, by file name
    backupTable    \* the rows of the backups table in insertion order: [path, live]

lifeVars == <<status, container, rconBound, history, events, bcast, pa, nActions,
              probers, recTasks, nRecTicks>>
hubVars == <<clients, subscriptions, outbox, closed, phase, pending, nFrames, taken,
             stalled>>
backupVars == <<bk, cmds, archive, backupRows, nBackups>>
\* the fields of the instance and its tasks apart from the event log and the frames of a step
lifeRest == <<status, container, rconBound, history, pa, nActions, probers, recTasks,
              nRecTicks>>
zipVars == <<zop, zres, zpos, zlast, written>>
schedVars == <<clock, started, nextTick, sched, fired, nEdits, schedules, startedAt>>
provVars == <<inst, nextId, provLast, pendingUpdate>>
taskVars == <<task, nTasks>>
restoreVars == <<rs, nRestores>>
logVars == <<streams, logStreamCancels, sendOnClosed>>
cmdVars == <<cmd, nCmds>>
fileVars == <<touched>>
rtVars == <<rt>>
settingsVars == <<properties, sc>>
portVars == <<busy, allocs>>
alertVars == <<alertNow, highCpuAlert, cpuAlerts, cpuTasks>>
archiveVars == <<archiveNow, archiveFiles, backupTable>>
nonLife == <<hubVars, backupVars, zipVars, schedVars, provVars, taskVars, restoreVars, logVars, cmdVars, fileVars, rtVars, settingsVars, portVars, alertVars, archiveVars>>
nonHubLogs == <<lifeVars, backupVars, zipVars, schedVars, provVars, taskVars, restoreVars, cmdVars, fileVars, rtVars, settingsVars, portVars, alertVars, archiveVars>>
nonHub == <<nonHubLogs, logVars>>
nonBackup == <<hubVars, lifeRest, zipVars, schedVars, provVars, taskVars, restoreVars, logVars, cmdVars, fileVars, rtVars, settingsVars, portVars, alertVars, archiveVars>>
nonZip == <<lifeVars, hubVars, backupVars, schedVars, provVars, taskVars, restoreVars, logVars, cmdVars, fileVars, rtVars, settingsVars, portVars, alertVars, archiveVars>>
nonSched == <<lifeRest, hubVars, backupVars, zipVars, provVars, taskVars, restoreVars, logVars, cmdVars, fileVars, rtVars, settingsVars, portVars, alertVars, archiveVars>>
nonProv == <<lifeRest, hubVars, backupVars, zipVars, schedVars, taskVars, restoreVars, logVars, cmdVars, fileVars, rtVars, settingsVars, portVars, alertVars, archiveVars>>
nonTask == <<hubVars, zipVars, schedVars, provVars, restoreVars, logVars, cmdVars, fileVars, rtVars, settingsVars, portVars, alertVars, archiveVars>>
nonRestore == <<hubVars, backupVars, zipVars, schedVars, provVars, taskVars, logVars, cmdVars, fileVars, rtVars, settingsVars, portVars, alertVars, archiveVars>>
nonCmd == <<lifeRest, events, backupVars, zipVars, schedVars, provVars, taskVars, restoreVars, logVars, fileVars, rtVars, settingsVars, portVars, alertVars, archiveVars>>
nonFiles == <<lifeRest, hubVars, backupVars, zipVars, schedVars, provVars, taskVars, restoreVars, logVars, cmdVars, rtVars, settingsVars, portVars, alertVars, archiveVars>>
nonRoundTrip == <<lifeRest, hubVars, backupVars, zipVars, schedVars, provVars, taskVars, restoreVars, logVars, cmdVars, fileVars, settingsVars, portVars, alertVars, archiveVars>>
nonSettings == <<hubVars, backupVars, zipVars, schedVars, provVars, taskVars, restoreVars, logVars, cmdVars, fileVars, rtVars, portVars, alertVars, archiveVars>>
nonSettingsRestore == <<hubVars, backupVars, zipVars, schedVars, provVars, taskVars, logVars, cmdVars, fileVars, rtVars, portVars, alertVars, archiveVars>>
nonPorts == <<lifeRest, hubVars, backupVars, zipVars, schedVars, provVars, taskVars, restoreVars, logVars, cmdVars, fileVars, rtVars, settingsVars, alertVars, archiveVars>>
nonAlerts == <<lifeVars, hubVars, backupVars, zipVars, schedVars, provVars, taskVars, restoreVars, logVars, cmdVars, fileVars, rtVars, settingsVars, portVars, archiveVars>>
nonArchive == <<lifeVars, hubVars, backupVars, zipVars, schedVars, provVars, taskVars, restoreVars, logVars, cmdVars, fileVars, rtVars, settingsVars, portVars, alertVars>>
vars == <<lifeVars, hubVars, backupVars, zipVars, schedVars, provVars, taskVars, restoreVars, logVars,
          cmdVars, fileVars, rtVars, settingsVars, portVars, alertVars, archiveVars>>


ProberIds == 1..MaxProbers
RecTaskIds == 1..MaxRecTasks

IdleProber == [pc |-> "idle", dials |-> FALSE, result |-> "none", born |-> 0]
IdleTask == [pc |-> "idle", snap |-> "offline"]
IdleCall == [pc |-> "idle", action |-> "none", newStatus |-> "none", startPolling |-> FALSE]

\* ------------------------------------------------------------------------
\* Instance lifecycle
\* ------------------------------------------------------------------------
\* the port of the remote console inside the container
RCONPort == "25575"

\* The container port whose host binding SendCommandToServer looks up:
\* containerInfo.NetworkSettings.Ports["25565/tcp"].
CommandPort == "25565"

\* NetworkSettings.Ports of the running container has a binding for the
\* port: every create call publishes 25565/tcp; rconBound says whether
\* 25575/tcp is published.
Published(port) == IF port = RCONPort THEN rconBound ELSE TRUE

InitLife ==
    /\ status = "offline"
    /\ container = "exited"
    /\ rconBound \in BOOLEAN
    /\ history = <<>>
    /\ events = <<>>
    /\ bcast = <<>>
    /\ pa = IdleCall
    /\ nActions = 0
    /\ probers = [p \in ProberIds |-> IdleProber]
    /\ recTasks = [t \in RecTaskIds |-> IdleTask]
    /\ nRecTicks = 0

\* A switch whose default branch stops the instance.
ActionStatusDefaultStops(action) ==
    CASE action = "start" -> "starting"
      [] action = "restart" -> "starting"
      [] OTHER -> "offline"

\* The status PerformServerAction writes for an action, "none" for the default branch.
ActionStatus(action) ==
    CASE action = "start" -> "starting"
      [] action = "stop" -> "offline"
      [] action = "restart" -> "starting"
      [] OTHER -> "none"

\* The container after the docker call the action makes.
ActionContainer(action) ==
    CASE action = "start" -> "running"
      [] action = "stop" -> "exited"
      [] action = "restart" -> "running"
      [] OTHER -> container

ActionPolls(action) == action \in {"start", "restart"}

\* The place of the next pollForRconReady goroutine in the order in which
\* PerformServerAction starts them.
NextBorn ==
    1 + (CHOOSE n \in {probers[q].born : q \in ProberIds} :
             \A q \in ProberIds : probers[q].born <= n)

\* The slots of the model that hold no running prober.
FreeProbers == {p \in ProberIds : probers[p].pc # "polling"}

\* PerformServerAction up to and including the docker call of the switch.
PerformServerActionCall(action, dockerOk) ==
    /\ pa.pc = "idle"
    /\ nActions < MaxActions
    /\ ActionPolls(action) => FreeProbers # {}
    /\ nActions' = nActions + 1
    /\ IF ActionStatus(action) = "none" \/ container = "gone" \/ ~dockerOk
       THEN \* unknown action, or the docker call returned an error: return err
            /\ UNCHANGED <<pa, container>>
       ELSE /\ container' = ActionContainer(action)
            /\ pa' = [pc |-> "called", action |-> action,
                      newStatus |-> ActionStatus(action),
                      startPolling |-> ActionPolls(action)]
    /\ bcast' = <<>>
    /\ UNCHANGED <<status, rconBound, history, events, probers, recTasks,
                   nRecTicks>>
    /\ UNCHANGED nonLife

\* PerformServerAction from the UPDATE of the status to the return.
PerformServerActionFinish ==
    /\ pa.pc = "called"
    /\ status' = pa.newStatus
    /\ bcast' = <<pa.newStatus>>
    /\ events' = Append(events, "server." \o pa.action)
    /\ IF pa.startPolling
       THEN LET p == CHOOSE q \in FreeProbers : \A r \in FreeProbers : q <= r
            IN probers' = [probers EXCEPT ![p] = [pc |-> "polling", dials |-> FALSE,
                                                  result |-> "none", born |-> NextBorn]]
       ELSE UNCHANGED probers
    /\ pa' = IdleCall
    /\ UNCHANGED <<container, rconBound, history, nActions, recTasks, nRecTicks>>
    /\ UNCHANGED nonLife

\* A PerformServerAction call that succeeds, as its caller sees it: the docker
\* call, the UPDATE of the status, the broadcast and the readiness prober. The
\* caller appends the event "server.<action>" with its own.
ActionApplied(action) ==
    /\ container' = ActionContainer(action)
    /\ status' = ActionStatus(action)
    /\ bcast' = <<ActionStatus(action)>>
    /\ probers' = IF ActionPolls(action)
                  THEN [probers EXCEPT
                          ![CHOOSE p \in FreeProbers : \A q \in FreeProbers : p <= q] =
                              [pc |-> "polling", dials |-> FALSE, result |-> "none",
                               born |-> NextBorn]]
                  ELSE probers

\* A prober that leaves the status as it is when the remote-console dial succeeded.
ReadyStatusKeepsStarting == "starting"

\* What a prober tick writes when the remote-console dial succeeded.
ReadyStatus == "online"

\* A prober that declares the instance online when its deadline passes.
TimeoutStatusOnline == "online"

\* What the prober writes when its 3-minute context expires.
TimeoutStatus == "offline"

\* One delivery of ticker.C (every 5 s) in pollForRconReady.
ProberTick(p, dialOk) ==
    /\ probers[p].pc = "polling"
    /\ IF container # "running"
       THEN \* inspect failed or State.Running is false
            /\ status' = "offline"
            /\ bcast' = <<"offline">>
            /\ probers' = [probers EXCEPT ![p].pc = "done", ![p].dials = FALSE,
                                           ![p].result = "stopped"]
            /\ UNCHANGED events
       ELSE IF ~rconBound
       THEN /\ probers' = [probers EXCEPT ![p].pc = "done", ![p].dials = FALSE,
                                           ![p].result = "unbound"]
            /\ bcast' = <<>>
            /\ UNCHANGED <<status, events>>
       ELSE IF dialOk
       THEN /\ status' = ReadyStatus
            /\ bcast' = <<ReadyStatus>>
            /\ events' = Append(events, "server.start.ready")
            /\ probers' = [probers EXCEPT ![p].pc = "done", ![p].dials = FALSE,
                                           ![p].result = "ready"]
       ELSE /\ probers' = [probers EXCEPT ![p].dials = TRUE]
            /\ bcast' = <<>>
            /\ UNCHANGED <<status, events>>
    /\ UNCHANGED <<container, rconBound, history, pa, nActions, recTasks, nRecTicks>>
    /\ UNCHANGED nonLife

\* pollingCtx.Done() in pollForRconReady: the 3-minute deadline of the prober has
\* passed. The docker and rcon calls of a tick take unbounded time (they run under
\* context.Background()), so the deadline may pass after any number of ticks.
ProberTimeout(p) ==
    /\ probers[p].pc = "polling"
    /\ status' = TimeoutStatus
    /\ bcast' = <<TimeoutStatus>>
    /\ events' = Append(events, "server.start.fail")
    /\ probers' = [probers EXCEPT ![p].pc = "done", ![p].result = "timeout"]
    /\ UNCHANGED <<container, rconBound, history, pa, nActions, recTasks, nRecTicks>>
    /\ UNCHANGED nonLife

\* ------------------------------------------------------------------------
\* Container runtime (environment)
\* ------------------------------------------------------------------------
ContainerExit ==
    /\ container = "running"
    /\ container' = "exited"
    /\ bcast' = <<>>
    /\ UNCHANGED <<status, rconBound, history, events, pa, nActions, probers,
                   recTasks, nRecTicks>>
    /\ UNCHANGED nonLife

ContainerRemoved ==
    /\ container # "gone"
    /\ container' = "gone"
    /\ bcast' = <<>>
    /\ UNCHANGED <<status, rconBound, history, events, pa, nActions, probers,
                   recTasks, nRecTicks>>
    /\ UNCHANGED nonLife

\* A call that returned an error: it was counted and is not in flight.
C20_Failed == nActions' = nActions + 1 /\ pa'.pc = "idle"

C20_FailStep ==
    /\ C20_Failed =>
          /\ status' = status
          /\ bcast' = <<>>
          /\ events' = events
          /\ probers' = probers
          /\ container' = container
    /\ nActions' = nActions + 1 =>
          \A a \in ActionNames, ok \in BOOLEAN :
              ( /\ a \notin {"start", "stop", "restart", "reinstall"} \/ ~ok
                /\ PerformServerActionCall(a, ok) )
                 => C20_Failed

\* C20: a PerformServerAction call that fails has no effect on the catalogue
\* or the bus: an action outside start, stop, restart, reinstall fails
\* without a call to the container runtime, and then, as when the runtime
\* call fails, the status is unchanged, nothing is broadcast, no event is
\* appended and no readiness prober is started.
C20_FailedActionHasNoEffect == [][C20_FailStep]_vars

C20_Witness ==
    /\ nActions = 1 /\ pa = IdleCall
    /\ status = "offline" /\ container = "exited"
    /\ events = <<>> /\ bcast = <<>>
    /\ \A p \in ProberIds : probers[p] = IdleProber

\* C21: PerformServerAction(id, "reinstall") is an accepted action: with the
\* container there and the runtime calls succeeding it stops the container,
\* empties the working tree and starts the container, after which the
\* status is starting and server.reinstall is appended.
C21_ReinstallAccepted ==
    [][(nActions' = nActions + 1 /\ container # "gone"
          /\ PerformServerActionCall("reinstall", TRUE))
        => (pa'.pc = "called" /\ pa'.action = "reinstall" /\ pa'.newStatus = "starting")]_vars

\* ------------------------------------------------------------------------
\* Telemetry & state reconciler (StatUpdater)
\* ------------------------------------------------------------------------
\* The statuses for which updateAllServerStats starts an update goroutine.
RecSelected(st) == st \in {"online", "starting", "stopping"}

FreeTasks == {t \in RecTaskIds : recTasks[t].pc = "idle"}

\* updateAllServerStats: one tick of the 15 s ticker.
UpdateAllServerStats ==
    /\ nRecTicks < MaxRecTicks
    /\ nRecTicks' = nRecTicks + 1
    /\ IF RecSelected(status)
       THEN /\ FreeTasks # {}
            /\ LET t == CHOOSE q \in FreeTasks : \A r \in FreeTasks : q <= r
               IN recTasks' = [recTasks EXCEPT ![t] = [pc |-> "run", snap |-> status]]
       ELSE UNCHANGED recTasks
    /\ bcast' = <<>>
    /\ UNCHANGED <<status, container, rconBound, history, events, pa, nActions,
                   probers>>
    /\ UNCHANGED nonLife

\* The status updateSingleServer hands to UpdateServerStats when stats were returned.
StatsStatus(snap) == IF snap = "offline" THEN "online" ELSE snap

\* updateSingleServer returns before it calls UpdateServerStats.
NoUpdate == [status |-> "none", usage |-> "none"]

\* An updateSingleServer that goes on to UpdateServerStats after any error of
\* the stats request, with the figures of the copy it holds.
StatsUpdateOnAnyError(snap, notFound, statsOk) ==
    IF notFound /\ snap # "offline"
    THEN [status |-> "offline", usage |-> "zero"]
    ELSE IF notFound \/ ~statsOk
    THEN [status |-> snap, usage |-> "measured"]
    ELSE [status |-> StatsStatus(snap), usage |-> "measured"]

\* What updateSingleServer hands to UpdateServerStats: the status and the usage
\* figures (CPU, RAM, storage, current players), all zero or as measured.
StatsUpdate(snap, notFound, statsOk) ==
    IF notFound
    THEN IF snap # "offline"
         THEN [status |-> "offline", usage |-> "zero"]
         ELSE NoUpdate
    ELSE IF ~statsOk
    THEN NoUpdate
    ELSE [status |-> StatsStatus(snap), usage |-> "measured"]

\* The usage figures of the instance row: UpdateServerStats writes them with
\* the resource_history row, in one transaction.
RowUsage == IF history = <<>> THEN "zero" ELSE history[Len(history)]

\* updateSingleServer on the copy of the row taken by the tick.
UpdateSingleServer(t, statsOk) ==
    /\ recTasks[t].pc = "run"
    /\ recTasks' = [recTasks EXCEPT ![t] = IdleTask]
    /\ LET upd == StatsUpdate(recTasks[t].snap, container = "gone", statsOk)
       IN IF upd = NoUpdate
          THEN /\ bcast' = <<>>
               /\ UNCHANGED <<status, history>>
          ELSE /\ status' = upd.status
               /\ history' = Append(history, upd.usage)
               /\ bcast' = <<upd.status>>
    /\ UNCHANGED <<container, rconBound, events, pa, nActions, probers, nRecTicks>>
    /\ UNCHANGED nonLife

NextLife ==
    \/ \E a \in ActionNames, ok \in BOOLEAN : PerformServerActionCall(a, ok)
    \/ PerformServerActionFinish
    \/ \E p \in ProberIds, ok \in BOOLEAN : ProberTick(p, ok)
    \/ \E p \in ProberIds : ProberTimeout(p)
    \/ ContainerExit
    \/ ContainerRemoved
    \/ UpdateAllServerStats
    \/ \E t \in RecTaskIds, ok \in BOOLEAN : UpdateSingleServer(t, ok)

\* ------------------------------------------------------------------------
\* Claims about the lifecycle, the readiness prober and the reconciler
\* ------------------------------------------------------------------------
RecStep == \E t \in RecTaskIds, ok \in BOOLEAN : UpdateSingleServer(t, ok)

\* C1: no step of the reconciler's per-instance update changes the declared status
\* from starting to online, whatever PerformServerAction and the prober did since
\* the tick that started the update.
C1_ReconcilerNeverPromotesStarting ==
    [][RecStep => ~(status = "starting" /\ status' = "online")]_vars

\* The lifecycle state machine of the specification.
LifecycleEdges ==
    {<<"offline", "starting">>, <<"starting", "online">>, <<"online", "stopping">>,
     <<"stopping", "offline">>, <<"online", "starting">>, <<"starting", "offline">>}
    \cup {<<s, "error">> : s \in Statuses}

\* C2: every change of the declared status is an edge of the lifecycle state
\* machine (offline -> starting -> online -> stopping -> offline, online -> starting,
\* starting -> offline, anything -> error).
C2_StatusFollowsLifecycle ==
    [][status' # status => <<status, status'>> \in LifecycleEdges]_vars

C10_TickRepairsOffline ==
    [][(status = "offline" /\ container = "running" /\ UpdateAllServerStats)
          => \E t \in RecTaskIds :
                recTasks[t].pc = "idle" /\ recTasks'[t] = [pc |-> "run", snap |-> "offline"]]_vars

\* C29: a reconciler per-instance update changes the declared status only
\* through its two corrections (container not found: offline; declared offline
\* with stats returned: online); in every other case the status stored right
\* after its write equals the status stored right before it, under any
\* interleaving with PerformServerAction and the readiness prober.
C29_ReconcilerKeepsConcurrentStatus ==
    [][\A t \in RecTaskIds :
         (recTasks[t].pc = "run" /\ recTasks'[t] = IdleTask)
           => \/ status' = status
              \/ container = "gone" /\ status' = "offline"
              \/ recTasks[t].snap = "offline" /\ status = "offline" /\ status' = "online"]_vars

\* the PerformServerAction that succeeded last, by the event it appended
LastAction ==
    LET acts == {n \in 1..Len(events) :
                   events[n] \in {"server.start", "server.stop", "server.restart"}}
    IN IF acts = {} THEN "none"
       ELSE events[CHOOSE n \in acts : \A m \in acts : m <= n]

\* C30: after PerformServerAction(id, stop) has returned success, and as long
\* as no later start or restart is issued, the declared status is offline and
\* stays offline: no readiness prober of an earlier start and no reconciler
\* update in flight writes online or starting afterwards.
C30_StoppedStaysOffline ==
    (LastAction = "server.stop" /\ pa.pc = "idle") => status = "offline"

\* Prober q was started after prober p and has declared the instance online.
NewerReady(p, q) ==
    /\ probers[q].pc = "done" /\ probers[q].result = "ready"
    /\ probers[q].born > probers[p].born

\* C31: when several readiness probers are alive for one instance, the timeout
\* or container-stopped outcome of an older prober never sets the status to
\* offline after a newer prober has set it to online for a container that is
\* still running and ready.
C31_OlderProberKeepsOnline ==
    [][\A p \in ProberIds :
         ( /\ probers[p].pc = "polling"
           /\ probers'[p].pc = "done"
           /\ probers'[p].result \in {"timeout", "stopped"}
           /\ \E q \in ProberIds : NewerReady(p, q)
           /\ status = "online" /\ container = "running" /\ rconBound )
         => status' # "offline"]_vars

\* C32: every instance whose declared status is starting eventually reaches
\* online or offline: each readiness prober ends within its 3-minute window
\* and has written a terminal status when it ends, also when the
\* remote-console port is not published and when reconciler updates run
\* concurrently. An instance whose container was removed is left aside: the
\* next tick of the reconciler declares it offline.
C32_StartingEnds ==
    (status = "starting") ~> (status \in {"online", "offline"} \/ container = "gone")

C34_Step(t) ==
    /\ (container = "gone" /\ status # "offline")
          => /\ status' = "offline"
             /\ RowUsage' = "zero"
             /\ history' = Append(history, "zero")
             /\ bcast' = <<"offline">>
    /\ (container # "gone" /\ UpdateSingleServer(t, FALSE))
          => /\ UNCHANGED <<status, history>>
             /\ bcast' = <<>>

OutboxCap == 256

MaxFrames == OutboxCap + ExtraFrames

Sessions == {"s1", "s2"}

\* Client.ServerID: the topic of the route a session connected on.
TopicOf(c) == IF c = "s1" THEN "global" ELSE "srv1"

InitHub ==
    /\ clients = {}
    /\ subscriptions = << >>
    /\ outbox = [c \in Sessions |-> <<>>]
    /\ closed = [c \in Sessions |-> FALSE]
    /\ phase = [c \in Sessions |-> "new"]
    /\ pending = 0
    /\ nFrames = 0
    /\ taken = [c \in Sessions |-> 0]
    /\ stalled \in SUBSET Sessions

\* addSubscription
AddSubscription(subs, c, topic) ==
    IF topic \in DOMAIN subs
    THEN [subs EXCEPT ![topic] = @ \cup {c}]
    ELSE [t \in DOMAIN subs \cup {topic} |-> IF t = topic THEN {c} ELSE subs[t]]

\* A removal that leaves the session in its topic set.
RemoveSubscriptionForgets(subs, c) == subs

\* removeSubscription: the session leaves every topic; an emptied topic is deleted.
RemoveSubscription(subs, c) ==
    LET kept == {t \in DOMAIN subs : subs[t] \ {c} # {}}
    IN [t \in kept |-> subs[t] \ {c}]

RECURSIVE RemoveAll(_, _)
RemoveAll(subs, cs) ==
    IF cs = {} THEN subs
    ELSE LET c == CHOOSE x \in cs : TRUE
         IN RemoveAll(RemoveSubscription(subs, c), cs \ {c})

\* WebSocketHandler.Serve up to its send on hub.Register.
Serve(c) ==
    /\ phase[c] = "new"
    /\ nFrames + (IF pending # 0 THEN 1 ELSE 0) <= MaxJoin
    /\ phase' = [phase EXCEPT ![c] = "registering"]
    /\ UNCHANGED <<clients, subscriptions, outbox, closed, pending, nFrames, taken, stalled>>
    /\ UNCHANGED nonHub

\* Hub.Run, case client := <-h.Register
HubRegister(c) ==
    /\ phase[c] = "registering"
    /\ clients' = clients \cup {c}
    /\ subscriptions' = AddSubscription(subscriptions, c, TopicOf(c))
    /\ phase' = [phase EXCEPT ![c] = "open"]
    /\ taken' = [taken EXCEPT ![c] = nFrames]
    /\ UNCHANGED <<outbox, closed, pending, nFrames, stalled>>
    /\ UNCHANGED nonHub

\* Client.WritePump takes the next frame of the outbox and writes it to the socket.
WritePump(c) ==
    /\ phase[c] = "open"
    /\ c \notin stalled
    /\ outbox[c] # <<>>
    /\ taken' = [taken EXCEPT ![c] = Head(outbox[c])]
    /\ outbox' = [outbox EXCEPT ![c] = Tail(@)]
    /\ UNCHANGED <<clients, subscriptions, closed, phase, pending, nFrames, stalled>>
    /\ UNCHANGED nonHub

\* cancel() of a stream's context; a stream that returned stays as it is.
Cancel(strs, k) ==
    [n \in DOMAIN strs |-> IF n = k /\ strs[n] = "running" THEN "cancelled" ELSE strs[n]]

\* Both pumps of the session have returned: Serve's cleanup cancels the stream
\* the map holds for the session, deletes the entry and sends on
\* hub.Unregister.
PumpsExit(c) ==
    /\ phase[c] = "open"
    /\ closed[c] \/ nFrames <= MaxJoin
    /\ phase' = [phase EXCEPT ![c] = "closing"]
    /\ streams' = [streams EXCEPT ![c] = Cancel(@, logStreamCancels[c])]
    /\ logStreamCancels' = [logStreamCancels EXCEPT ![c] = 0]
    /\ UNCHANGED <<clients, subscriptions, outbox, closed, pending, nFrames, taken, stalled,
                   sendOnClosed>>
    /\ UNCHANGED nonHubLogs

\* Hub.Run, case client := <-h.Unregister
HubUnregister(c) ==
    /\ phase[c] = "closing"
    /\ phase' = [phase EXCEPT ![c] = "ended"]
    /\ IF c \in clients
       THEN /\ clients' = clients \ {c}
            /\ closed' = [closed EXCEPT ![c] = TRUE]
            /\ subscriptions' = RemoveSubscription(subscriptions, c)
       ELSE UNCHANGED <<clients, closed, subscriptions>>
    /\ UNCHANGED <<outbox, pending, nFrames, taken, stalled>>
    /\ UNCHANGED nonHub

\* A service goroutine reaches s.hub.Broadcast <- jsonMsg and blocks on it.
BroadcastSend ==
    /\ pending = 0
    /\ nFrames < MaxFrames
    /\ \A c \in clients \ stalled : Len(outbox[c]) <= MaxLag
    /\ \A c \in Sessions : phase[c] \notin {"registering", "closing"}
    /\ pending' = nFrames + 1
    /\ UNCHANGED <<clients, subscriptions, outbox, closed, phase, nFrames, taken, stalled>>
    /\ UNCHANGED nonHub

\* The sessions whose outbox has no room for one more frame.
Full == {c \in clients : Len(outbox[c]) >= OutboxCap}

\* A hub loop that sends with a plain client.Send <- message: it takes the
\* message only when every outbox has room.
HubBroadcastBlocking ==
    /\ pending # 0
    /\ Full = {}
    /\ outbox' = [c \in Sessions |-> IF c \in clients THEN Append(outbox[c], pending)
                                      ELSE outbox[c]]
    /\ nFrames' = pending
    /\ pending' = 0
    /\ UNCHANGED <<clients, subscriptions, closed, phase, taken, stalled>>
    /\ UNCHANGED nonHub

\* Hub.Run, case message := <-h.Broadcast
HubBroadcast ==
    /\ pending # 0
    /\ outbox' = [c \in Sessions |-> IF c \in clients \ Full THEN Append(outbox[c], pending)
                                      ELSE outbox[c]]
    /\ closed' = [c \in Sessions |-> closed[c] \/ c \in Full]
    /\ clients' = clients \ Full
    /\ subscriptions' = RemoveAll(subscriptions, Full)
    /\ nFrames' = pending
    /\ pending' = 0
    /\ UNCHANGED <<phase, taken, stalled>>
    /\ UNCHANGED nonHub

NextHub ==
    \/ \E c \in Sessions : Serve(c)
    \/ \E c \in Sessions : HubRegister(c)
    \/ \E c \in Sessions : WritePump(c)
    \/ \E c \in Sessions : PumpsExit(c)
    \/ \E c \in Sessions : HubUnregister(c)
    \/ BroadcastSend
    \/ HubBroadcast

InitLogs ==
    /\ streams = [c \in Sessions |-> <<>>]
    /\ logStreamCancels = [c \in Sessions |-> 0]
    /\ sendOnClosed = {}

\* handleIncomingWSMessage, case "subscribe_docker_logs", called by the read
\* pump of the session: a new context, its cancel function stored under the
\* session, and a StreamServerLogs goroutine.
SubscribeDockerLogs(c) ==
    /\ phase[c] = "open"
    /\ Len(streams[c]) < MaxStreams
    /\ streams' = [streams EXCEPT ![c] = Append(@, "running")]
    /\ logStreamCancels' = [logStreamCancels EXCEPT ![c] = Len(streams[c]) + 1]
    /\ UNCHANGED <<sendOnClosed, nonHubLogs, hubVars>>

\* handleIncomingWSMessage, case "unsubscribe_docker_logs"
UnsubscribeDockerLogs(c) ==
    /\ phase[c] = "open"
    /\ streams' = [streams EXCEPT ![c] = Cancel(@, logStreamCancels[c])]
    /\ logStreamCancels' = [logStreamCancels EXCEPT ![c] = 0]
    /\ UNCHANGED <<sendOnClosed, nonHubLogs, hubVars>>

\* StreamServerLogs returns: its context was cancelled.
StreamServerLogsReturn(c, k) ==
    /\ k \in DOMAIN streams[c]
    /\ streams[c][k] = "cancelled"
    /\ streams' = [streams EXCEPT ![c][k] = "returned"]
    /\ UNCHANGED <<logStreamCancels, sendOnClosed, nonHubLogs, hubVars>>

\* A frame of docker log output; the frames of the broadcasts are 1, 2, ...
LogFrame == 0

\* StreamServerLogs read one line of the container's output and its context is
\* not cancelled: the select executes sendChan <- logMsg. The send blocks while
\* the outbox is full and panics when the channel was closed.
StreamServerLogsSend(c, k) ==
    /\ k \in DOMAIN streams[c]
    /\ streams[c][k] = "running"
    /\ IF closed[c]
       THEN /\ sendOnClosed' = sendOnClosed \cup {c}
            /\ UNCHANGED outbox
       ELSE /\ Len(outbox[c]) < OutboxCap
            /\ Len(outbox[c]) < MaxLines
            /\ outbox' = [outbox EXCEPT ![c] = Append(@, LogFrame)]
            /\ UNCHANGED sendOnClosed
    /\ UNCHANGED <<clients, subscriptions, closed, phase, pending, nFrames, taken, stalled>>
    /\ UNCHANGED <<streams, logStreamCancels, nonHubLogs>>

NextLogs ==
    \/ \E c \in Sessions, k \in 1..MaxStreams : StreamServerLogsSend(c, k)
    \/ \E c \in Sessions : Serve(c)
    \/ \E c \in Sessions : HubRegister(c)
    \/ \E c \in Sessions : SubscribeDockerLogs(c)
    \/ \E c \in Sessions : UnsubscribeDockerLogs(c)
    \/ \E c \in Sessions, k \in 1..MaxStreams : StreamServerLogsReturn(c, k)
    \/ \E c \in Sessions : PumpsExit(c)
    \/ \E c \in Sessions : HubUnregister(c)

Running(c) == {k \in DOMAIN streams[c] : streams[c][k] = "running"}

C17_Unregistered ==
    \A c \in Sessions :
        phase[c] = "ended" =>
            /\ c \notin clients
            /\ \A t \in DOMAIN subscriptions : c \notin subscriptions[t]
            /\ closed[c]
            /\ Running(c) = {}

C17_UnsubscribeStep ==
    \A c \in Sessions : UnsubscribeDockerLogs(c) => Running(c)' = {}

\* C17: no log stream of a session survives it: once the session is
\* unregistered it is in neither the global set nor a topic set, its outbox
\* is closed and every stream started for it by subscribe_docker_logs, also
\* by a repeated one, has been cancelled; after unsubscribe_docker_logs no
\* stream of the session keeps running.
C17_NoStreamSurvives == []C17_Unregistered /\ [][C17_UnsubscribeStep]_vars

\* C33: a session's outbox channel is closed at most once and nothing is sent
\* on it after it has been closed, in every interleaving of the hub loop, the
\* log streamer and the read pump's replies.
C33_NoSendAfterClose == sendOnClosed = {}

\* The hub before any session connects, every consumer reading.
InitHubIdle == InitHub /\ stalled = {}

\* The instance at rest while the bus is exercised.
InitLifeIdle == InitLife /\ ~rconBound

\* The frames a+1 .. b in order.
FramesFrom(a, b) == [i \in 1..(b - a) |-> a + i]

\* Every frame broadcast since a registered session joined is in its outbox
\* or was taken by its write pump; a session that never read and saw more
\* broadcasts than its outbox holds is no longer registered.
C5_Delivered ==
    /\ \A c \in clients : ~closed[c] /\ outbox[c] = FramesFrom(taken[c], nFrames)
    /\ \A c \in stalled :
          (phase[c] \notin {"new", "registering"} /\ nFrames - taken[c] > OutboxCap)
             => (c \notin clients /\ closed[c])

C5_DropStep ==
    (pending # 0 /\ HubBroadcast) =>
        /\ \A c \in Full :
              /\ c \notin clients'
              /\ closed'[c]
              /\ \A t \in DOMAIN subscriptions' : c \notin subscriptions'[t]
        /\ \A c \in clients \ Full :
              /\ c \in clients'
              /\ ~closed'[c]
              /\ outbox'[c] = Append(outbox[c], pending)

\* C5: a Broadcast processed while a session's outbox is full drops that
\* session (out of the global set and of its topic set, outbox closed) and
\* delivers the frame to every other registered session; after 257
\* broadcasts a never-reading session with a 256-frame outbox is
\* unregistered and the other sessions have received every frame.
C5_BroadcastDropsSlowSession == []C5_Delivered /\ [][C5_DropStep]_vars

C5_Witness ==
    /\ nFrames = OutboxCap + 1
    /\ \E c \in stalled, d \in Sessions \ stalled :
          /\ phase[c] = "open" /\ closed[c] /\ c \notin clients
          /\ Len(outbox[c]) = OutboxCap
          /\ \A t \in DOMAIN subscriptions : c \notin subscriptions[t]
          /\ d \in clients /\ taken[d] + Len(outbox[d]) = nFrames

C6_Bounded == \A c \in Sessions : Len(outbox[c]) <= OutboxCap

C6_HubReady ==
    /\ pending # 0 => ENABLED HubBroadcast
    /\ \A c \in Sessions :
          /\ phase[c] = "registering" => ENABLED HubRegister(c)
          /\ phase[c] = "closing" => ENABLED HubUnregister(c)

\* C6: an outbox never holds more than 256 frames, and the hub loop can
\* always take the Register, Unregister or Broadcast request that is
\* waiting, whatever the consumers do: a blocked producer is served and a
\* never-reading session whose outbox is full is removed.
C6_HubNeverStalls ==
    /\ [](C6_Bounded /\ C6_HubReady)
    /\ (pending # 0) ~> (pending = 0)
    /\ \A c \in Sessions :
          (c \in stalled /\ c \in clients /\ pending # 0 /\ Len(outbox[c]) = OutboxCap)
             ~> (c \notin clients)

C6_Witness ==
    /\ pending # 0
    /\ \E c \in stalled : c \in clients /\ Len(outbox[c]) = OutboxCap

\* ------------------------------------------------------------------------
\* BackupService.CreateBackup
\* ------------------------------------------------------------------------
IdleBackup == [pc |-> "idle", deferred |-> FALSE, walked |-> 0, res |-> "none"]

InitBackup ==
    /\ bk = IdleBackup
    /\ cmds = <<>>
    /\ archive = "none"
    /\ backupRows = 0
    /\ nBackups = 0

\* SendCommandToServer: rejected unless the declared status is online; fails
\* when the port it looks up is not bound or no dial attempt succeeds.
SendOutcome(dialOk) ==
    IF status # "online" THEN "rejected"
    ELSE IF container # "running" \/ ~Published(CommandPort) \/ ~dialOk THEN "failed"
    ELSE "sent"

\* A save-on that runs only when CreateBackup returns a backup.
DeferredRunsOnSuccess(res) == res = "ok"

\* defer SendCommandToServer(serverID, "save-on") runs however the function returns.
DeferredRuns(res) == TRUE

\* CreateBackup, entry: the instance row is read and its status decides the path.
CreateBackupBegin ==
    /\ bk.pc = "idle"
    /\ pa.pc = "idle"
    /\ nBackups < MaxBackups
    /\ nBackups' = nBackups + 1
    /\ bk' = [IdleBackup EXCEPT !.pc = IF status = "online" THEN "saveOff" ELSE "create"]
    /\ cmds' = <<>>
    /\ archive' = "none"
    /\ bcast' = <<>>
    /\ UNCHANGED <<events, backupRows>>
    /\ UNCHANGED nonBackup

\* save-off is sent (a failure is only logged) and save-on is deferred.
SaveOff(dialOk) ==
    /\ bk.pc = "saveOff"
    /\ cmds' = Append(cmds, <<"save-off", SendOutcome(dialOk)>>)
    /\ bk' = [bk EXCEPT !.pc = "saveAll", !.deferred = TRUE]
    /\ bcast' = <<>>
    /\ UNCHANGED <<events, archive, backupRows, nBackups>>
    /\ UNCHANGED nonBackup

\* save-all is sent; a failure ends the call.
SaveAll(dialOk) ==
    /\ bk.pc = "saveAll"
    /\ cmds' = Append(cmds, <<"save-all", SendOutcome(dialOk)>>)
    /\ bk' = IF SendOutcome(dialOk) = "sent"
             THEN [bk EXCEPT !.pc = "create"]
             ELSE [bk EXCEPT !.pc = "return", !.res = "saveAllFailed"]
    /\ bcast' = <<>>
    /\ UNCHANGED <<events, archive, backupRows, nBackups>>
    /\ UNCHANGED nonBackup

\* os.Create of the archive file.
CreateFile(ok) ==
    /\ bk.pc = "create"
    /\ IF ok
       THEN archive' = "open" /\ bk' = [bk EXCEPT !.pc = "walk"]
       ELSE UNCHANGED archive /\ bk' = [bk EXCEPT !.pc = "return", !.res = "createFailed"]
    /\ bcast' = <<>>
    /\ UNCHANGED <<events, cmds, backupRows, nBackups>>
    /\ UNCHANGED nonBackup

\* filepath.Walk visits the next file; on an error the partial archive is removed.
WalkStep(ok) ==
    /\ bk.pc = "walk"
    /\ bk.walked < MaxFiles
    /\ IF ok
       THEN UNCHANGED archive /\ bk' = [bk EXCEPT !.walked = @ + 1]
       ELSE archive' = "removed" /\ bk' = [bk EXCEPT !.pc = "return", !.res = "walkFailed"]
    /\ bcast' = <<>>
    /\ UNCHANGED <<events, cmds, backupRows, nBackups>>
    /\ UNCHANGED nonBackup

\* The walk is over: the archive is closed and its size is read.
StatFile(ok) ==
    /\ bk.pc = "walk"
    /\ bk.walked = MaxFiles
    /\ archive' = "written"
    /\ bk' = IF ok THEN [bk EXCEPT !.pc = "insert"]
             ELSE [bk EXCEPT !.pc = "return", !.res = "statFailed"]
    /\ bcast' = <<>>
    /\ UNCHANGED <<events, cmds, backupRows, nBackups>>
    /\ UNCHANGED nonBackup

\* How the insertion of the row ends: db.Prepare fails, stmt.Exec fails, or
\* the row is inserted.
InsertResults == {"prepareFailed", "insertFailed", "ok"}

\* INSERT INTO backups: a failing Prepare returns the error as it is, a
\* failing Exec removes the archive first; on success the backup.create
\* event is appended.
InsertRow(r) ==
    /\ bk.pc = "insert"
    /\ IF r = "ok"
       THEN /\ backupRows' = backupRows + 1
            /\ events' = Append(events, "backup.create")
            /\ UNCHANGED archive
       ELSE /\ archive' = IF r = "insertFailed" THEN "removed" ELSE archive
            /\ UNCHANGED <<backupRows, events>>
    /\ bk' = [bk EXCEPT !.pc = "return", !.res = r]
    /\ bcast' = <<>>
    /\ UNCHANGED <<cmds, nBackups>>
    /\ UNCHANGED nonBackup

\* CreateBackup returns: the deferred calls run.
CreateBackupReturn(dialOk) ==
    /\ bk.pc = "return"
    /\ cmds' = IF bk.deferred /\ DeferredRuns(bk.res)
               THEN Append(cmds, <<"save-on", SendOutcome(dialOk)>>)
               ELSE cmds
    /\ bk' = [bk EXCEPT !.pc = "idle"]
    /\ bcast' = <<>>
    /\ UNCHANGED <<events, archive, backupRows, nBackups>>
    /\ UNCHANGED nonBackup

NextBackup ==
    \/ CreateBackupBegin
    \/ \E ok \in BOOLEAN : SaveOff(ok)
    \/ \E ok \in BOOLEAN : SaveAll(ok)
    \/ \E ok \in BOOLEAN : CreateFile(ok)
    \/ \E ok \in BOOLEAN : WalkStep(ok)
    \/ \E ok \in BOOLEAN : StatFile(ok)
    \/ \E r \in InsertResults : InsertRow(r)
    \/ \E ok \in BOOLEAN : CreateBackupReturn(ok)
    \/ \E ok \in BOOLEAN : PerformServerActionCall("stop", ok)
    \/ PerformServerActionFinish

\* An instance that is stopped, or running and ready.
InitLifeReady ==
    /\ status \in {"offline", "online"}
    /\ container = (IF status = "online" THEN "running" ELSE "exited")
    /\ rconBound = TRUE
    /\ history = <<>>
    /\ events = <<>>
    /\ bcast = <<>>
    /\ pa = IdleCall
    /\ nActions = 0
    /\ probers = [p \in ProberIds |-> IdleProber]
    /\ recTasks = [t \in RecTaskIds |-> IdleTask]
    /\ nRecTicks = 0

\* The commands the current call has issued, in order.
Issued == [i \in 1..Len(cmds) |-> cmds[i][1]]

IsPrefix(a, b) == Len(a) <= Len(b) /\ \A i \in 1..Len(a) : a[i] = b[i]

SaveBarrier == <<"save-off", "save-all", "save-on">>

C7_Paired ==
    /\ IsPrefix(Issued, SaveBarrier)
    /\ (bk.pc = "idle" /\ bk.res # "none" /\ Issued # <<>>) => Issued = SaveBarrier
    /\ (bk.pc \in {"create", "walk", "insert"} /\ bk.deferred)
          => (Issued = <<"save-off", "save-all">> /\ cmds[2][2] = "sent")

C7_ArchiveInside ==
    (archive' # archive /\ archive' # "none" /\ bk.deferred) =>
        Issued = <<"save-off", "save-all">> /\ Issued' = Issued

\* C7: a CreateBackup that found the instance online issues save-off, then
\* save-all, writes the archive, and issues save-on last; save-on is issued
\* however the call ends once save-off was attempted: save-off failed,
\* save-all failed, the archive file could not be created, the walk failed
\* or the row could not be inserted.
C7_SaveOnPairsSaveOff == []C7_Paired /\ [][C7_ArchiveInside]_vars

C7_Witness ==
    /\ bk.pc = "idle" /\ bk.res = "walkFailed"
    /\ archive = "removed"
    /\ Issued = SaveBarrier
    /\ cmds[1][2] = "failed"

\* C37: when CreateBackup fails during the walk of the working tree or at
\* the insertion of the row, the partially written archive is deleted and no
\* row refers to it; a row that is inserted refers to an archive that exists
\* and was closed before its size was read.
C37_FailedBackupLeavesNoArchive ==
    /\ bk.res \in {"walkFailed", "prepareFailed", "insertFailed"} => archive = "removed"
    /\ bk.res = "ok" => archive = "written"

\* ------------------------------------------------------------------------
\* Archive extraction: BackupService.RestoreBackup and unzip
\* ------------------------------------------------------------------------
\* A path is the sequence of its components; its text is a sequence of
\* characters.  The working tree is /s/d, next to a directory /s/d2.
DestParts == <<"s", "d">>

NameParts == {"..", ".", "d2", "e"}

\* The entry names: the components of f.Name split at the separator.
Names == UNION {[1..n -> NameParts] : n \in 0..MaxDepth}

PartChars(p) ==
    CASE p = ".." -> <<".", ".">>
      [] p = "d2" -> <<"d", "2">>
      [] OTHER -> <<p>>

\* filepath.Clean of a rooted path: "." and empty components vanish, ".."
\* removes the component before it and vanishes at the root.
RECURSIVE Resolve(_, _)
Resolve(stack, rest) ==
    IF rest = <<>> THEN stack
    ELSE LET h == Head(rest)
         IN IF h \in {".", ""} THEN Resolve(stack, Tail(rest))
            ELSE IF h = ".."
            THEN Resolve(IF stack = <<>> THEN <<>> ELSE SubSeq(stack, 1, Len(stack) - 1),
                         Tail(rest))
            ELSE Resolve(Append(stack, h), Tail(rest))

Clean(parts) == Resolve(<<>>, parts)

\* filepath.Join(dest, name)
Join(dest, name) == Clean(dest \o name)

RECURSIVE PartsString(_)
PartsString(parts) ==
    IF parts = <<>> THEN <<>>
    ELSE <<"/">> \o PartChars(Head(parts)) \o PartsString(Tail(parts))

\* The text of a cleaned rooted path.
PathString(parts) == IF parts = <<>> THEN <<"/">> ELSE PartsString(parts)

\* strings.HasPrefix
HasPrefix(str, prefix) ==
    Len(prefix) <= Len(str) /\ SubSeq(str, 1, Len(prefix)) = prefix

\* A check that compares with the working tree's text without the separator.
ZipSlipOkNoSeparator(dest, name) ==
    HasPrefix(PathString(Join(dest, name)), PathString(Clean(dest)))

\* strings.HasPrefix(fpath, filepath.Clean(dest)+string(os.PathSeparator))
ZipSlipOk(dest, name) ==
    HasPrefix(PathString(Join(dest, name)), PathString(Clean(dest)) \o <<"/">>)

\* filepath.Dir of a cleaned path
Dir(parts) == IF parts = <<>> THEN <<>> ELSE SubSeq(parts, 1, Len(parts) - 1)

\* os.MkdirAll(path): path and those of its ancestors that do not exist yet;
\* the working tree and its ancestors exist.
MkdirAll(path) ==
    {SubSeq(path, 1, n) : n \in 1..Len(path)} \ {SubSeq(DestParts, 1, n) : n \in 0..Len(DestParts)}

InitZip ==
    /\ zop = "none"
    /\ zres = "idle"
    /\ zpos = 0
    /\ zlast = <<>>
    /\ written = {}

\* RestoreBackup up to the loop over the archive: the working tree is emptied.
RestoreBegin ==
    /\ zres # "running"
    /\ zop' = "restore"
    /\ zres' = "running"
    /\ zpos' = 0
    /\ zlast' = <<>>
    /\ written' = {}
    /\ UNCHANGED nonZip

\* unzip up to the loop over the archive, called on a new working tree.
UnzipBegin ==
    /\ zres # "running"
    /\ zop' = "unzip"
    /\ zres' = "running"
    /\ zpos' = 0
    /\ zlast' = <<>>
    /\ written' = {}
    /\ UNCHANGED nonZip

\* One iteration of the loop over the archive's entries.
ExtractEntry(name, isDir, io) ==
    /\ zres = "running"
    /\ zpos < MaxEntries
    /\ zpos' = zpos + 1
    /\ zlast' = name
    /\ UNCHANGED zop
    /\ LET fpath == Join(DestParts, name)
       IN IF ~ZipSlipOk(DestParts, name)
          THEN zres' = "rejected" /\ UNCHANGED written
          ELSE IF isDir
          THEN zres' = "running" /\ written' = written \cup MkdirAll(fpath)
          ELSE IF io = "openFailed"
          THEN zres' = "ioFailed" /\ written' = written \cup MkdirAll(Dir(fpath))
          ELSE /\ zres' = (IF io = "ok" THEN "running" ELSE "ioFailed")
               /\ written' = written \cup MkdirAll(fpath)
    /\ UNCHANGED nonZip

\* The archive has no further entry.
ExtractEnd ==
    /\ zres = "running"
    /\ zres' = "done"
    /\ UNCHANGED <<zop, zpos, zlast, written>>
    /\ UNCHANGED nonZip

\* A failing MkdirAll creates no more than the one before a failing OpenFile.
IoResults == {"ok", "openFailed", "copyFailed"}

NextZip ==
    \/ RestoreBegin
    \/ UnzipBegin
    \/ \E name \in Names : ExtractEntry(name, TRUE, "ok")
    \/ \E name \in Names, io \in IoResults : ExtractEntry(name, FALSE, io)
    \/ ExtractEnd

\* A path strictly inside the working tree.
Inside(path) ==
    Len(path) > Len(DestParts) /\ SubSeq(path, 1, Len(DestParts)) = DestParts

C8_WrittenInside == \A w \in written : Inside(w)

\* A step that processes an archive entry: the entry is zlast'.
C8_EntryStep == zres = "running" /\ zpos' = zpos + 1

C8_RejectStep ==
    /\ ( /\ C8_EntryStep
         /\ ~HasPrefix(PathString(Join(DestParts, zlast')), PathString(DestParts) \o <<"/">>) )
          => (zres' = "rejected" /\ written' = written)
    /\ zres = "rejected" => (written' = written \/ zres' = "running")
    /\ zres = "rejected" => zpos' \in {zpos, 0}

\* C8: every path an extraction (restore of a backup, or the archive of a
\* new instance) creates or writes lies strictly inside the working tree;
\* an entry whose cleaned join with the working tree lacks the prefix
\* "working tree + separator", such as ../e, fails the operation, and
\* neither it nor a later entry is written.
C8_ExtractionStaysInside == []C8_WrittenInside /\ [][C8_RejectStep]_vars

C8_Witness ==
    /\ zop = "restore" /\ zres = "rejected"
    /\ zlast = <<"..", "e">>
    /\ written = {<<"s", "d", "e">>}

\* ------------------------------------------------------------------------
\* Scheduler
\* ------------------------------------------------------------------------
ScheduleIds == 1..MaxSchedules

\* Cron expressions, by their period in minutes: "* * * * *" and "*/2 * * * *".
CronPeriods == {1, 2}

\* NULL in last_run_at
Never == -1

NoSchedule ==
    [st |-> "none", period |-> 1, created |-> 0, lastRun |-> Never, nextRun |-> 0, seen |-> FALSE]

InitSched ==
    /\ clock = 0
    /\ started = FALSE
    /\ nextTick = 0
    /\ sched = [i \in ScheduleIds |-> NoSchedule]
    /\ fired = [i \in ScheduleIds |-> 0]
    /\ nEdits = 0
    /\ schedules = [i \in ScheduleIds |-> NoSchedule]
    /\ startedAt = 0

\* cron.Schedule.Next(t): the first firing strictly after t.
CronNext(period, t) == ((t \div (period * Minute)) + 1) * (period * Minute)

NoneFired == [i \in ScheduleIds |-> 0]

\* ScheduleService.CreateSchedule
CreateSchedule(i, period, active) ==
    /\ sched[i].st = "none"
    /\ nEdits < MaxEdits
    /\ nEdits' = nEdits + 1
    /\ sched' = [sched EXCEPT ![i] = [st |-> IF active THEN "active" ELSE "paused",
                                      period |-> period,
                                      created |-> clock,
                                      lastRun |-> Never,
                                      nextRun |-> CronNext(period, clock),
                                      seen |-> FALSE]]
    /\ events' = Append(events, "schedule.create")
    /\ fired' = NoneFired
    /\ bcast' = <<>>
    /\ UNCHANGED <<clock, started, startedAt, nextTick, schedules>>
    /\ UNCHANGED nonSched

\* ScheduleService.UpdateSchedule
UpdateSchedule(i, period, active) ==
    /\ sched[i].st # "none"
    /\ nEdits < MaxEdits
    /\ nEdits' = nEdits + 1
    /\ sched' = [sched EXCEPT ![i] = [@ EXCEPT !.st = IF active THEN "active" ELSE "paused",
                                               !.period = period,
                                               !.nextRun = CronNext(period, clock),
                                               !.seen = FALSE]]
    /\ events' = Append(events, "schedule.update")
    /\ fired' = NoneFired
    /\ bcast' = <<>>
    /\ UNCHANGED <<clock, started, startedAt, nextTick, schedules>>
    /\ UNCHANGED nonSched

\* now.After(*schedule.NextRunAt)
Due(row, now) == now > row.nextRun

\* GetAllActiveSchedules: WHERE is_active = TRUE
IsActive(row) == row.st = "active"

GetAllActiveSchedules == [i \in ScheduleIds |-> IF IsActive(sched[i]) THEN sched[i] ELSE NoSchedule]

Selected == {i \in ScheduleIds : schedules[i].st # "none"}

\* Scheduler.Run: the ticker is created and checkAndRunSchedules is called at
\* once; it starts by selecting the active schedules.
SchedulerRun ==
    /\ ~started
    /\ started' = TRUE
    /\ startedAt' = clock
    /\ nextTick' = clock + Minute
    /\ schedules' = GetAllActiveSchedules
    /\ fired' = NoneFired
    /\ bcast' = <<>>
    /\ UNCHANGED <<clock, sched, nEdits, events>>
    /\ UNCHANGED nonSched

\* Scheduler.Run, case <-s.ticker.C: checkAndRunSchedules selects the active
\* schedules.
SchedulerTick ==
    /\ started
    /\ clock = nextTick
    /\ Selected = {}
    /\ nextTick' = nextTick + Minute
    /\ schedules' = GetAllActiveSchedules
    /\ fired' = NoneFired
    /\ bcast' = <<>>
    /\ UNCHANGED <<clock, started, startedAt, sched, nEdits, events>>
    /\ UNCHANGED nonSched

\* checkAndRunSchedules, one iteration of the loop over the selected rows: a
\* row that is due has its task spawned and its run times written by
\* UpdateScheduleRunTimes (UPDATE ... WHERE id = ?).
CheckAndRunSchedules(i, now) ==
    /\ i \in Selected /\ \A j \in Selected : i <= j
    /\ schedules' = [schedules EXCEPT ![i] = NoSchedule]
    /\ fired' = [NoneFired EXCEPT ![i] = IF Due(schedules[i], now) THEN 1 ELSE 0]
    /\ sched' = [sched EXCEPT ![i] =
                    IF sched[i].st = "none" THEN @
                    ELSE IF Due(schedules[i], now)
                    THEN [@ EXCEPT !.lastRun = now,
                                   !.nextRun = CronNext(schedules[i].period, now),
                                   !.seen = TRUE]
                    ELSE [@ EXCEPT !.seen = TRUE]]
    /\ bcast' = <<>>
    /\ UNCHANGED <<clock, started, startedAt, nextTick, nEdits, events>>
    /\ UNCHANGED nonSched

\* Time passes; a tick that is due is handled first, and the loop of
\* checkAndRunSchedules takes no time.
TimePasses ==
    /\ clock < MaxTime * Minute
    /\ started => clock < nextTick
    /\ Selected = {}
    /\ clock' = clock + 1
    /\ fired' = NoneFired
    /\ bcast' = <<>>
    /\ UNCHANGED <<started, startedAt, nextTick, sched, nEdits, events, schedules>>
    /\ UNCHANGED nonSched

NextSched ==
    \/ \E i \in ScheduleIds, p \in CronPeriods, a \in BOOLEAN : CreateSchedule(i, p, a)
    \/ \E i \in ScheduleIds, p \in CronPeriods, a \in BOOLEAN : UpdateSchedule(i, p, a)
    \/ SchedulerRun
    \/ SchedulerTick
    \/ \E i \in ScheduleIds : CheckAndRunSchedules(i, clock)
    \/ TimePasses

C9_RunTimesDiffer ==
    \A i \in ScheduleIds : sched[i].st # "none" => sched[i].lastRun # sched[i].nextRun

C9_TickStep ==
    \A i \in ScheduleIds :
        (CheckAndRunSchedules(i, clock) /\ sched[i] = schedules[i]) =>
            /\ sched[i].nextRun <= clock =>
                  /\ fired'[i] = 1
                  /\ sched'[i].lastRun = clock
                  /\ sched'[i].nextRun = CronNext(sched[i].period, clock)
                  /\ sched'[i].nextRun > clock
            /\ (sched[i].period = 1 /\ sched[i].seen) => fired'[i] = 1

\* C9: on a scheduler tick every active schedule whose next_run_at is not
\* after now has its task dispatched exactly once, its last_run_at set to
\* now and its next_run_at set to the cron expression's next firing after
\* now; no schedule has last_run_at equal to next_run_at; an every-minute
\* schedule is dispatched once by the tick that follows a minute later.
C9_DueSchedulesDispatched == []C9_RunTimesDiffer /\ [][C9_TickStep]_vars

\* the later of last_run_at and the creation time
LastRunOrCreation(row) == IF row.lastRun > row.created THEN row.lastRun ELSE row.created

\* C26: for every schedule, after CreateSchedule, after UpdateSchedule and
\* after every scheduler tick, next_run_at is the first firing of the
\* schedule's cron expression strictly after the later of last_run_at and the
\* creation time.
C26_NextRunFollowsLastRun ==
    \A i \in ScheduleIds :
        sched[i].st # "none" =>
            sched[i].nextRun = CronNext(sched[i].period, LastRunOrCreation(sched[i]))

\* C27: the scheduler performs no catch-up: a firing that fell due before
\* Scheduler.Run was called is not dispatched after the start; every dispatch
\* is for a firing at or after the start.
C27_NoCatchUp ==
    [][\A i \in ScheduleIds : fired'[i] = 1 => schedules[i].nextRun >= startedAt]_vars

\* C15: a schedule whose active flag is false is never dispatched by the
\* scheduler, whatever its next_run_at, and the scheduler does not change its
\* last_run_at or next_run_at.
C15_InactiveNeverDispatched ==
    [][\A i \in ScheduleIds :
          (sched[i].st = "paused" /\ CheckAndRunSchedules(i, clock)) =>
              /\ fired'[i] = 0
              /\ sched'[i].lastRun = sched[i].lastRun
              /\ sched'[i].nextRun = sched[i].nextRun]_vars

\* ------------------------------------------------------------------------
\* Provisioning and deletion of instances
\* ------------------------------------------------------------------------
\* The preferred host ports of the game and of the remote console.
GamePortBase == 25565
RconPortBase == 25575
\* the end of the scan of FindAvailablePort
PortLimit == 65535

InstIds == 1..MaxInstances

\* An identifier nothing exists for.
NoInstance == [row |-> FALSE, dir |-> FALSE, ctr |-> "none", game |-> 0, rcon |-> 0,
               kids |-> FALSE]

\* what the unzipped archive holds under the name server.properties
UnzippedProperties == {"absent", "rconOff", "directory"}

NoFile == [kind |-> "none", props |-> <<>>]
NoTree == [startScript |-> FALSE, eula |-> "", properties |-> NoFile]
NoServer == [status |-> "none", password |-> "", container |-> FALSE]

NoCall == [op |-> "none", id |-> 0, ok |-> TRUE]

\* "ender-rcon-" + uuid.New().String()
RconPassword(id) == "ender-rcon-" \o ToString(id)

\* ensureRconInProperties(filePath, rconPassword): the properties read from the
\* file, none when it cannot be opened or scanned, with the three remote
\* console properties set; a failing write is logged and the file stays as it was.
EnsureRconInProperties(unzipped, rconPassword) ==
    LET read == IF unzipped = "rconOff" THEN [k \in {"enable-rcon"} |-> "false"] ELSE <<>>
        props == [k \in DOMAIN read \cup {"enable-rcon", "rcon.password", "rcon.port"} |->
                     CASE k = "enable-rcon" -> "true"
                       [] k = "rcon.password" -> rconPassword
                       [] k = "rcon.port" -> RCONPort
                       [] OTHER -> read[k]]
    IN IF unzipped = "directory" THEN [kind |-> "dir", props |-> <<>>]
       ELSE [kind |-> "file", props |-> props]

\* the files a create call that returned success has written into the working tree
ProvisionedTree(unzipped, rconPassword) ==
    [startScript |-> TRUE, eula |-> "eula=true\n",
     properties |-> EnsureRconInProperties(unzipped, rconPassword)]

InitProv ==
    /\ inst = [i \in InstIds |-> NoInstance]
    /\ nextId = 1
    /\ pendingUpdate = {}
    /\ provLast = NoCall

\* The host ports a listener holds: those published by running containers.
BoundPorts == UNION {{inst[i].game, inst[i].rcon} : i \in {j \in InstIds : inst[j].ctr = "running"}}

\* the loop of FindAvailablePort over a host where the ports of bindFails are
\* taken: the first port from startPort to PortLimit - 1 on which net.Listen
\* succeeds, 0 for "no available ports found". The listener is closed at once.
FirstFreePort(startPort, bindFails) ==
    LET last == IF startPort + Cardinality(bindFails) < PortLimit
                THEN startPort + Cardinality(bindFails) ELSE PortLimit - 1
        free == {p \in startPort..last : p \notin bindFails}
    IN IF free = {} THEN 0 ELSE CHOOSE p \in free : \A q \in free : p <= q

\* FindAvailablePort: the first port from startPort on which net.Listen succeeds.
FindAvailablePort(startPort) == FirstFreePort(startPort, BoundPorts)

\* The steps of CreateServerFromTemplate that can fail, in order.
TemplateSteps == <<"template", "mkdir", "zipPath", "open", "unzip", "startScript", "eula",
                   "image", "container", "prepare", "insert">>

\* The steps of CreateServerFromUpload that can fail, in order.
UploadSteps == <<"mkdir", "unzip", "provision", "image", "container", "prepare", "insert">>

StepIndex(steps, step) == CHOOSE n \in 1..Len(steps) : steps[n] = step

\* step comes before failAt in steps, i.e. it was completed ("none": nothing failed).
Passed(steps, step, failAt) ==
    failAt = "none" \/ StepIndex(steps, step) < StepIndex(steps, failAt)

\* What a create call leaves behind for the new identifier when it fails at
\* failAt; cleanup is the set of failing steps after which the working tree
\* is removed again.
Provisioned(steps, failAt, cleanup) ==
    [row  |-> failAt = "none",
     dir  |-> Passed(steps, "mkdir", failAt) /\ failAt \notin cleanup,
     ctr  |-> IF Passed(steps, "container", failAt) /\ failAt # "insert"
              THEN "created" ELSE "none",
     game |-> IF Passed(steps, "container", failAt) /\ failAt # "insert"
              THEN FindAvailablePort(GamePortBase) ELSE 0,
     rcon |-> IF Passed(steps, "container", failAt) /\ failAt # "insert"
              THEN FindAvailablePort(RconPortBase) ELSE 0,
     kids |-> FALSE]

CreateServer(op, steps, failAt, cleanup, eventType, unzipped) ==
    /\ nextId \in InstIds
    /\ nextId' = nextId + 1
    /\ inst' = [inst EXCEPT ![nextId] = Provisioned(steps, failAt, cleanup)]
    /\ provLast' = [op |-> op, id |-> nextId, ok |-> failAt = "none", failed |-> failAt,
                    returned |-> IF failAt = "none"
                                 THEN [status |-> "offline", password |-> RconPassword(nextId),
                                       container |-> TRUE]
                                 ELSE NoServer,
                    tree |-> IF failAt = "none"
                             THEN ProvisionedTree(unzipped, RconPassword(nextId))
                             ELSE NoTree]
    /\ IF failAt = "none"
       THEN events' = Append(events, eventType) /\ bcast' = <<"offline">>
       ELSE UNCHANGED events /\ bcast' = <<>>
    /\ UNCHANGED pendingUpdate
    /\ UNCHANGED nonProv

\* ServerService.CreateServerFromTemplate: only a failing unzip removes the
\* working tree again.
CreateServerFromTemplate(failAt, unzipped) ==
    CreateServer("template", TemplateSteps, failAt, {"unzip"}, "server.create", unzipped)

\* ServerService.CreateServerFromUpload
CreateServerFromUpload(failAt, unzipped) ==
    CreateServer("upload", UploadSteps, failAt, {}, "server.upload", unzipped)

Range(seq) == {seq[n] : n \in 1..Len(seq)}

\* docker start of an instance's container (PerformServerAction, start): it
\* fails when a published host port is already held.
StartContainer(i) ==
    /\ inst[i].row /\ inst[i].ctr = "created"
    /\ IF {inst[i].game, inst[i].rcon} \cap BoundPorts = {} /\ inst[i].game # inst[i].rcon
       THEN inst' = [inst EXCEPT ![i].ctr = "running"]
       ELSE UNCHANGED inst
    /\ bcast' = <<>>
    /\ UNCHANGED <<events, nextId, provLast, pendingUpdate>>
    /\ UNCHANGED nonProv

\* UpdateServerStats up to tx.Commit(): the row is updated and a
\* resource_history row of the instance inserted, in one transaction. On a
\* row that is gone the INSERT breaks the foreign key and the call returns
\* its error with nothing written and nothing broadcast.
RecordHistory(i) ==
    /\ inst[i].row /\ inst[i].ctr = "running" /\ ~inst[i].kids
    /\ inst' = [inst EXCEPT ![i].kids = TRUE]
    /\ pendingUpdate' = pendingUpdate \cup {i}
    /\ bcast' = <<>>
    /\ UNCHANGED <<events, nextId, provLast>>
    /\ UNCHANGED nonProv

\* UpdateServerStats after tx.Commit(): s.broadcastServerUpdate(server) with
\* the copy of the row the caller passed in.
BroadcastServerUpdate(i) ==
    /\ i \in pendingUpdate
    /\ pendingUpdate' = pendingUpdate \ {i}
    /\ bcast' = <<"server_update">>
    /\ UNCHANGED <<inst, events, nextId, provLast>>
    /\ UNCHANGED nonProv

\* The container is removed behind the service's back.
ContainerVanishes(i) ==
    /\ inst[i].row /\ inst[i].ctr # "none"
    /\ inst' = [inst EXCEPT ![i].ctr = "none"]
    /\ bcast' = <<>>
    /\ UNCHANGED <<events, nextId, provLast, pendingUpdate>>
    /\ UNCHANGED nonProv

\* ServerService.DeleteServer: a failing container removal and a failing
\* removal of the working tree are logged only; a failing DELETE ends the call.
DeleteServer(i, removeOk, deleteOk, rmdirOk) ==
    /\ inst[i].row
    /\ provLast' = [op |-> "delete", id |-> i, ok |-> deleteOk]
    /\ inst' = [inst EXCEPT ![i] =
                  [row  |-> ~deleteOk,
                   dir  |-> inst[i].dir /\ ~(deleteOk /\ rmdirOk),
                   ctr  |-> IF removeOk THEN "none" ELSE inst[i].ctr,
                   game |-> inst[i].game,
                   rcon |-> inst[i].rcon,
                   kids |-> inst[i].kids /\ ~deleteOk]]
    /\ IF deleteOk
       THEN events' = Append(events, "server.delete") /\ bcast' = <<"server_deleted">>
       ELSE UNCHANGED events /\ bcast' = <<>>
    /\ UNCHANGED <<nextId, pendingUpdate>>
    /\ UNCHANGED nonProv

NextProv ==
    \/ \E f \in Range(TemplateSteps) \cup {"none"}, u \in UnzippedProperties :
         CreateServerFromTemplate(f, u)
    \/ \E f \in Range(UploadSteps) \cup {"none"}, u \in UnzippedProperties :
         CreateServerFromUpload(f, u)
    \/ \E i \in InstIds : StartContainer(i)
    \/ \E i \in InstIds : RecordHistory(i)
    \/ \E i \in InstIds : BroadcastServerUpdate(i)
    \/ \E i \in InstIds : ContainerVanishes(i)
    \/ \E i \in InstIds, r \in BOOLEAN, d \in BOOLEAN, f \in BOOLEAN : DeleteServer(i, r, d, f)

\* The host ports assigned to the instances that exist.
AssignedPorts == UNION {{inst[i].game, inst[i].rcon} : i \in {j \in InstIds : inst[j].row}}

\* C11: the game and remote-console host ports of the existing instances are
\* pairwise distinct, also for instances whose container was never started.
C11_PortsDistinct ==
    Cardinality(AssignedPorts) = 2 * Cardinality({i \in InstIds : inst[i].row})

\* C12: a create call that fails leaves no row, no container and no working
\* tree for the identifier it generated.
C12_FailedCreateLeavesNothing ==
    [][(provLast'.op \in {"template", "upload"} /\ nextId' = nextId + 1 /\ ~provLast'.ok)
          => inst'[provLast'.id] = NoInstance]_vars

C28_Created == provLast'.op = "template" /\ nextId' = nextId + 1 /\ provLast'.ok

\* C28: a successful CreateServerFromTemplate persists and returns an instance
\* with status offline and a container identity, whose working tree holds
\* start.sh, an eula.txt with eula=true and a server.properties with
\* enable-rcon=true, rcon.port=25575 and rcon.password equal to the generated,
\* non-empty password; the instance is broadcast and a server.create event is
\* appended; an absent template is rejected before any directory, container or
\* row is created.
C28_CreateFromTemplate ==
    [][/\ C28_Created =>
            /\ inst'[provLast'.id].row /\ inst'[provLast'.id].ctr = "created"
            /\ provLast'.returned.status = "offline" /\ provLast'.returned.container
            /\ provLast'.returned.password # ""
            /\ provLast'.tree.startScript
            /\ provLast'.tree.eula = "eula=true\n"
            /\ provLast'.tree.properties.kind = "file"
            /\ provLast'.tree.properties.props =
                 [k \in DOMAIN provLast'.tree.properties.props |->
                     CASE k = "rcon.password" -> provLast'.returned.password
                       [] k = "rcon.port" -> "25575"
                       [] OTHER -> "true"]
            /\ bcast' = <<"offline">>
            /\ events' = Append(events, "server.create")
       /\ (provLast'.op = "template" /\ nextId' = nextId + 1 /\ provLast'.failed = "template")
            => inst'[provLast'.id] = NoInstance]_vars

\* C36: once DeleteServer has removed an instance's row, no reconciler update
\* that was in flight re-creates the row, appends a ResourceSample row for it
\* or broadcasts a server_update for it; the update of the row and the
\* insert of the sample are applied both or not at all.
C36_NoUpdateAfterDelete ==
    [][\A i \in InstIds :
          /\ (~inst[i].row /\ i \notin pendingUpdate) => (~inst'[i].kids \/ inst'[i].row)
          /\ (i \in pendingUpdate /\ BroadcastServerUpdate(i)) => inst[i].row]_vars

\* C13: after a DeleteServer that returned success the container, the working
\* tree, the row and the rows that reference it are gone; the call also
\* succeeds when the container was gone before.
C13_DeleteRemovesEverything ==
    [][\A i \in InstIds :
          (inst[i].row /\ ~inst'[i].row) =>
              /\ provLast'.ok
              /\ inst'[i].ctr = "none" /\ ~inst'[i].dir /\ ~inst'[i].kids]_vars

\* ------------------------------------------------------------------------
\* Scheduler.executeTask
\* ------------------------------------------------------------------------
\* schedule.TaskType is not validated when a schedule is stored.
TaskKinds == {"start", "stop", "restart", "backup", "command", "other"}

NoTask == [pc |-> "idle", kind |-> "none", payloadOk |-> TRUE, err |-> FALSE,
           outcome |-> "none"]

InitTask ==
    /\ task = NoTask
    /\ nTasks = 0

\* go s.executeTask(schedule): the goroutine holds a copy of the schedule.
SpawnTask(kind, payloadOk) ==
    /\ task.pc = "idle"
    /\ nTasks < MaxTasks
    /\ nTasks' = nTasks + 1
    /\ task' = [NoTask EXCEPT !.pc = "run", !.kind = kind, !.payloadOk = payloadOk]
    /\ bcast' = <<>>
    /\ UNCHANGED <<lifeRest, events, backupVars>>
    /\ UNCHANGED nonTask

\* The event executeTask appends for the error its switch produced.
OutcomeEvent(err) == IF err THEN "schedule.execute.fail" ELSE "schedule.execute.success"

TaskDone(err) ==
    task' = [task EXCEPT !.pc = "idle", !.err = err,
                         !.outcome = IF err THEN "fail" ELSE "success"]

\* case "start", "stop", "restart": PerformServerAction, then the outcome event.
ExecuteAction(dockerOk) ==
    /\ task.pc = "run" /\ task.kind \in {"start", "stop", "restart"}
    /\ pa.pc = "idle"
    /\ ActionPolls(task.kind) => FreeProbers # {}
    /\ IF container = "gone" \/ ~dockerOk
       THEN /\ TaskDone(TRUE)
            /\ events' = Append(events, OutcomeEvent(TRUE))
            /\ bcast' = <<>>
            /\ UNCHANGED <<status, container, probers>>
       ELSE /\ TaskDone(FALSE)
            /\ ActionApplied(task.kind)
            /\ events' = events \o <<"server." \o task.kind, OutcomeEvent(FALSE)>>
    /\ UNCHANGED <<rconBound, history, pa, nActions, recTasks, nRecTicks, backupVars, nTasks>>
    /\ UNCHANGED nonTask

\* case "backup": CreateBackup is started in a goroutine of its own and its
\* result is not awaited; err stays nil.
ExecuteBackup ==
    /\ task.pc = "run" /\ task.kind = "backup"
    /\ bk.pc = "idle" /\ nBackups < MaxBackups
    /\ nBackups' = nBackups + 1
    /\ bk' = [IdleBackup EXCEPT !.pc = IF status = "online" THEN "saveOff" ELSE "create"]
    /\ cmds' = <<>>
    /\ archive' = "none"
    /\ TaskDone(FALSE)
    /\ events' = Append(events, OutcomeEvent(FALSE))
    /\ bcast' = <<>>
    /\ UNCHANGED <<lifeRest, backupRows, nTasks>>
    /\ UNCHANGED nonTask

\* case "command": a missing or empty command is an error, else the error of
\* SendCommandToServer.
ExecuteTaskCommand(dialOk) ==
    /\ task.pc = "run" /\ task.kind = "command"
    /\ TaskDone(~task.payloadOk \/ SendOutcome(dialOk) # "sent")
    /\ events' = Append(events, OutcomeEvent(~task.payloadOk \/ SendOutcome(dialOk) # "sent"))
    /\ bcast' = <<>>
    /\ UNCHANGED <<lifeRest, backupVars, nTasks>>
    /\ UNCHANGED nonTask

\* default: unknown task type
ExecuteUnknown ==
    /\ task.pc = "run" /\ task.kind = "other"
    /\ TaskDone(TRUE)
    /\ events' = Append(events, OutcomeEvent(TRUE))
    /\ bcast' = <<>>
    /\ UNCHANGED <<lifeRest, backupVars, nTasks>>
    /\ UNCHANGED nonTask

NextTask ==
    \/ \E k \in TaskKinds, ok \in BOOLEAN : SpawnTask(k, ok)
    \/ \E ok \in BOOLEAN : ExecuteAction(ok)
    \/ ExecuteBackup
    \/ \E ok \in BOOLEAN : ExecuteTaskCommand(ok)
    \/ ExecuteUnknown
    \/ \E ok \in BOOLEAN : SaveOff(ok)
    \/ \E ok \in BOOLEAN : SaveAll(ok)
    \/ \E ok \in BOOLEAN : CreateFile(ok)
    \/ \E ok \in BOOLEAN : WalkStep(ok)
    \/ \E ok \in BOOLEAN : StatFile(ok)
    \/ \E r \in InsertResults : InsertRow(r)
    \/ \E ok \in BOOLEAN : CreateBackupReturn(ok)
    \/ \E p \in ProberIds : ProberTimeout(p)

OutcomeEvents == {"schedule.execute.fail", "schedule.execute.success"}

RECURSIVE CountIn(_, _)
CountIn(seq, set) ==
    IF seq = <<>> THEN 0
    ELSE (IF Head(seq) \in set THEN 1 ELSE 0) + CountIn(Tail(seq), set)

\* Every executeTask that ran appended one outcome event.
C14_OneOutcome ==
    CountIn(events, OutcomeEvents) = nTasks - (IF task.pc = "run" THEN 1 ELSE 0)

\* The outcome is fail exactly when the handler failed; for a backup the
\* handler is the CreateBackup call the task started.
C14_OutcomeTellsResult ==
    /\ task.outcome = "fail" => task.err
    /\ task.outcome = "success" => ~task.err
    /\ (task.outcome = "success" /\ task.kind = "backup" /\ bk.pc = "idle")
          => bk.res = "ok"

\* C14: every dispatched schedule appends exactly one outcome event,
\* schedule.execute.fail when its handler failed (a failing CreateBackup, a
\* missing command, an unknown kind) and schedule.execute.success only when
\* the handler succeeded.
C14_OutcomeEventMatchesHandler == C14_OneOutcome /\ C14_OutcomeTellsResult

\* ------------------------------------------------------------------------
\* BackupService.RestoreBackup
\* ------------------------------------------------------------------------
NoRestore == [pc |-> "idle", up |-> FALSE, stopped |-> FALSE, wiped |-> FALSE,
              extracted |-> 0, lost |-> 0, started |-> FALSE, res |-> "none"]

InitRestore ==
    /\ rs = NoRestore
    /\ nRestores = 0

RestoreReturn(res) == rs' = [rs EXCEPT !.pc = "idle", !.res = res]

\* RestoreBackup up to the test of server.Status: the lookups and the event
\* backup.restore.start.
RestoreBackupBegin(found) ==
    /\ rs.pc = "idle"
    /\ nRestores < MaxRestores
    /\ nRestores' = nRestores + 1
    /\ bcast' = <<>>
    /\ IF ~found
       THEN /\ rs' = [NoRestore EXCEPT !.res = "notFound"]
            /\ UNCHANGED events
       ELSE /\ rs' = [NoRestore EXCEPT !.pc = IF status \in {"online", "starting"}
                                             THEN "stop" ELSE "wipe",
                                      !.up = status \in {"online", "starting"}]
            /\ events' = Append(events, "backup.restore.start")
    /\ UNCHANGED lifeRest
    /\ UNCHANGED nonRestore

\* PerformServerAction(server.ID, "stop") and the 10 s sleep.
RestoreStop(dockerOk) ==
    /\ rs.pc = "stop"
    /\ pa.pc = "idle"
    /\ IF container = "gone" \/ ~dockerOk
       THEN /\ RestoreReturn("stopFailed")
            /\ bcast' = <<>>
            /\ UNCHANGED <<status, container, probers, events>>
       ELSE /\ rs' = [rs EXCEPT !.pc = "wipe", !.stopped = TRUE]
            /\ ActionApplied("stop")
            /\ events' = Append(events, "server.stop")
    /\ UNCHANGED <<rconBound, history, pa, nActions, recTasks, nRecTicks, nRestores>>
    /\ UNCHANGED nonRestore

\* os.ReadDir of the working tree and os.RemoveAll of each entry; the errors
\* of RemoveAll are dropped.
RestoreWipe(readOk) ==
    /\ rs.pc = "wipe"
    /\ IF readOk
       THEN rs' = [rs EXCEPT !.pc = "open", !.wiped = TRUE]
       ELSE RestoreReturn("readFailed")
    /\ bcast' = <<>>
    /\ UNCHANGED <<lifeRest, events, nRestores>>
    /\ UNCHANGED nonRestore

\* zip.OpenReader(backup.Path)
RestoreOpen(openOk) ==
    /\ rs.pc = "open"
    /\ IF openOk
       THEN rs' = [rs EXCEPT !.pc = "extract"]
       ELSE RestoreReturn("openFailed")
    /\ bcast' = <<>>
    /\ UNCHANGED <<lifeRest, events, nRestores>>
    /\ UNCHANGED nonRestore

\* What one iteration of the loop over the archive can meet: a file or a
\* directory that is written, a directory whose os.MkdirAll fails, a name
\* the ZipSlip test rejects, a file whose MkdirAll, OpenFile, Open or Copy
\* fails.
EntryResults == {"file", "dir", "dirFailed", "slip", "fileFailed"}

\* One iteration of the loop over zipReader.File. The error of os.MkdirAll
\* for a directory entry is dropped and the loop continues.
RestoreEntry(entry) ==
    /\ rs.pc = "extract"
    /\ rs.extracted + rs.lost < MaxEntries
    /\ rs' = CASE entry \in {"file", "dir"} -> [rs EXCEPT !.extracted = @ + 1]
               [] entry = "dirFailed" -> [rs EXCEPT !.lost = @ + 1]
               [] entry = "slip" -> [rs EXCEPT !.pc = "idle", !.res = "rejected"]
               [] entry = "fileFailed" -> [rs EXCEPT !.pc = "idle", !.res = "ioFailed"]
    /\ bcast' = <<>>
    /\ UNCHANGED <<lifeRest, events, nRestores>>
    /\ UNCHANGED nonRestore

\* The archive has no further entry: PerformServerAction(server.ID, "start"),
\* then the event backup.restore.finish.
RestoreStart(dockerOk) ==
    /\ rs.pc = "extract"
    /\ pa.pc = "idle"
    /\ FreeProbers # {}
    /\ IF container = "gone" \/ ~dockerOk
       THEN /\ RestoreReturn("startFailed")
            /\ bcast' = <<>>
            /\ UNCHANGED <<status, container, probers, events>>
       ELSE /\ rs' = [rs EXCEPT !.pc = "idle", !.started = TRUE, !.res = "ok"]
            /\ ActionApplied("start")
            /\ events' = events \o <<"server.start", "backup.restore.finish">>
    /\ UNCHANGED <<rconBound, history, pa, nActions, recTasks, nRecTicks, nRestores>>
    /\ UNCHANGED nonRestore

NextRestore ==
    \/ \E found \in BOOLEAN : RestoreBackupBegin(found)
    \/ \E ok \in BOOLEAN : RestoreStop(ok)
    \/ \E ok \in BOOLEAN : RestoreWipe(ok)
    \/ \E ok \in BOOLEAN : RestoreOpen(ok)
    \/ \E e \in EntryResults : RestoreEntry(e)
    \/ \E ok \in BOOLEAN : RestoreStart(ok)
    \/ \E p \in ProberIds, ok \in BOOLEAN : ProberTick(p, ok)
    \/ \E p \in ProberIds : ProberTimeout(p)

\* stop was issued, and succeeded, before the working tree was emptied
C16_StopBeforeWipe == (rs.up /\ rs.wiped) => rs.stopped

\* start is issued only when every entry met by the loop was extracted
C16_AllBeforeStart == (rs.up /\ rs.started) => rs.lost = 0

\* a restore that failed has not issued start
C16_FailureAborts == rs.res \notin {"none", "ok"} => ~rs.started

\* backup.restore.finish is appended by the step that issued start with success
C16_FinishStep ==
    (events' # events /\ events'[Len(events')] = "backup.restore.finish")
        => (rs'.started /\ ~rs.started /\ (rs.up => rs'.lost = 0) /\ status' = "starting")

\* C16: a restore of an instance that is online or starting issues stop
\* before any entry of the working tree is deleted, extracts all archive
\* entries before it issues start, and appends backup.restore.finish only
\* after start succeeded; when stopping, opening the archive or extracting
\* an entry fails, the restore aborts, start is not issued and
\* backup.restore.finish is not appended.
C16_RestoreOrdering ==
    /\ [](C16_StopBeforeWipe /\ C16_AllBeforeStart /\ C16_FailureAborts)
    /\ [][C16_FinishStep]_vars

\* The same without the entries whose error the loop drops.
C16_OrderingOfReportedFailures ==
    /\ [](C16_StopBeforeWipe /\ C16_FailureAborts)
    /\ [][(events' # events /\ events'[Len(events')] = "backup.restore.finish")
            => (rs'.started /\ ~rs.started /\ status' = "starting")]_vars

\* ------------------------------------------------------------------------
\* Console commands
\* ------------------------------------------------------------------------
NoCmd == [n |-> 0, by |-> "none", kind |-> "none", res |-> "none",
          inspected |-> FALSE, dialed |-> FALSE, port |-> "none", attempts |-> 0]

\* A call that ended without dialling.
NoDial(res, inspected) ==
    [res |-> res, inspected |-> inspected, dialed |-> FALSE, port |-> "none", attempts |-> 0]

\* for i := 0; i < 3; i++ { conn, dialErr = rcon.Dial(...) }
DialAttempts == 3

\* The attempt at which the endpoint would first accept the dial, 0 for never.
FirstOks == 0..(DialAttempts + 1)

\* The dial loop of SendCommandToServer: it stops at the first success and
\* after DialAttempts failures.
DialLoop(firstOk) ==
    IF firstOk \in 1..DialAttempts
    THEN [ok |-> TRUE, attempts |-> firstOk]
    ELSE [ok |-> FALSE, attempts |-> DialAttempts]

InitCmd ==
    /\ cmd = NoCmd
    /\ nCmds = 0

\* A gate that lets every status through.
StatusGateOpen(st) == TRUE

\* if server.Status != "online" { return error }
StatusGate(st) == st = "online"

\* SendCommandToServer: what the call returns, and whether it inspected the
\* container and dialled the remote console on the way.
SendCommandToServer(firstOk, execOk) ==
    IF ~StatusGate(status)
    THEN NoDial("notOnline", FALSE)
    ELSE IF container = "gone"
    THEN NoDial("inspectFailed", TRUE)
    ELSE IF container # "running" \/ ~Published(CommandPort)
    THEN NoDial("notBound", TRUE)
    ELSE [res |-> IF ~DialLoop(firstOk).ok THEN "dialFailed"
                  ELSE IF execOk THEN "sent" ELSE "execFailed",
          inspected |-> TRUE, dialed |-> TRUE,
          port |-> CommandPort, attempts |-> DialLoop(firstOk).attempts]

\* ExecuteTerminalCommand: docker exec in the container of an online instance.
ExecuteTerminalCommand(execOk) ==
    IF status # "online"
    THEN NoDial("notOnline", FALSE)
    ELSE NoDial(IF container = "running" /\ execOk THEN "sent" ELSE "execFailed", FALSE)

Called(by, kind, r) ==
    /\ nCmds < MaxCmds
    /\ nCmds' = nCmds + 1
    /\ cmd' = [n |-> nCmds + 1, by |-> by, kind |-> kind, res |-> r.res,
               inspected |-> r.inspected, dialed |-> r.dialed,
               port |-> r.port, attempts |-> r.attempts]

\* ServerHandler.SendServerConsoleCommand: SendCommandToServer on a request
\* of the HTTP API; the answer goes to the requester.
SendServerConsoleCommand(firstOk, execOk) ==
    /\ Called("api", "rcon", SendCommandToServer(firstOk, execOk))
    /\ bcast' = <<>>
    /\ UNCHANGED <<nonCmd, hubVars>>

\* The frame that answers a command of session c.
CmdFrame(c) == IF c = "s1" THEN -1 ELSE -2

\* A transcript sent to every registered session.
RecipientsAll(c) == clients

\* client.Send <- responseMsg: the session the message was received on.
Recipients(c) == {c}

\* executeCommand, called by the read pump of session c for send_rcon_command
\* and send_terminal_command: one frame, the transcript or the error, is sent
\* on client.Send. A session of the global route names no instance.
ExecuteCommand(c, payloadOk, source, firstOk, execOk) ==
    /\ phase[c] = "open"
    /\ ~closed[c]
    /\ \A d \in Recipients(c) : Len(outbox[d]) < OutboxCap
    /\ Called(c, IF payloadOk THEN source ELSE "none",
              IF ~payloadOk
              THEN NoDial("badPayload", FALSE)
              ELSE IF TopicOf(c) = "global"
              THEN NoDial("notFound", FALSE)
              ELSE IF source = "rcon" THEN SendCommandToServer(firstOk, execOk)
              ELSE ExecuteTerminalCommand(execOk))
    /\ outbox' = [d \in Sessions |->
                    IF d \in Recipients(c) THEN Append(outbox[d], CmdFrame(c))
                    ELSE outbox[d]]
    /\ bcast' = <<>>
    /\ UNCHANGED <<clients, subscriptions, closed, phase, pending, nFrames, taken, stalled>>
    /\ UNCHANGED <<nonCmd, logVars>>

NextCmd ==
    \/ \E c \in Sessions : Serve(c)
    \/ \E c \in Sessions : HubRegister(c)
    \/ \E c \in Sessions : WritePump(c)
    \/ \E c \in Sessions : PumpsExit(c)
    \/ \E c \in Sessions : HubUnregister(c)
    \/ \E c \in Sessions, p \in BOOLEAN, src \in {"rcon", "terminal"}, d \in FirstOks, e \in BOOLEAN :
          ExecuteCommand(c, p, src, d, e)
    \/ \E d \in FirstOks, e \in BOOLEAN : SendServerConsoleCommand(d, e)
    \/ ContainerExit
    \/ ContainerRemoved

C18_OwnFramesOnly ==
    \A d \in Sessions : \A i \in 1..Len(outbox[d]) : outbox[d][i] = CmdFrame(d)

C18_CommandStep ==
    \A d \in Sessions :
        Len(outbox'[d]) > Len(outbox[d]) =>
            /\ cmd'.n = cmd.n + 1
            /\ cmd'.by = d
            /\ outbox'[d] = Append(outbox[d], CmdFrame(d))

C19_CallStep ==
    cmd'.n = cmd.n + 1 =>
        /\ events' = events
        /\ (cmd'.kind = "rcon" /\ cmd'.res # "notFound" /\ status # "online") =>
              (cmd'.res = "notOnline" /\ ~cmd'.inspected /\ ~cmd'.dialed)

\* C19: SendCommand on an instance whose declared status is not online is
\* rejected with the not-online error without inspecting the container or
\* dialling the remote console, and SendCommand appends no event, whatever
\* its outcome.
C19_NotOnlineRejectedEarly == [][C19_CallStep]_vars

C19_Witness ==
    /\ cmd.by = "api" /\ cmd.kind = "rcon" /\ cmd.res = "notOnline"
    /\ ~cmd.inspected /\ ~cmd.dialed
    /\ status = "offline"
    /\ events = <<>>

C39_Dialled == cmd'.n = cmd.n + 1 /\ cmd'.kind = "rcon" /\ cmd'.dialed

\* C39: SendCommand dials the host port published for the container's
\* remote-console port 25575/tcp, the endpoint the readiness prober dials; it
\* makes at most 3 dial attempts, returns the transcript after the first
\* successful one and an error after the third failure.
C39_DialsRemoteConsole ==
    [][C39_Dialled =>
          /\ cmd'.port = RCONPort
          /\ cmd'.attempts \in 1..3
          /\ cmd'.res = "dialFailed" => cmd'.attempts = 3]_vars

\* The same for the dial loop alone, whatever port it dials.
C39_AtMostThreeDials ==
    [][C39_Dialled =>
          /\ cmd'.attempts \in 1..3
          /\ cmd'.res = "dialFailed" => cmd'.attempts = 3]_vars

\* ------------------------------------------------------------------------
\* File manager (ListFiles, GetFileContent, UpdateFileContent)
\* ------------------------------------------------------------------------
\* fullPath := filepath.Join(server.DataPath, path)
FullPath(path) == Join(DestParts, path)

\* strings.HasPrefix(fullPath, server.DataPath)
PathAllowed(path) == HasPrefix(PathString(FullPath(path)), PathString(DestParts))

InitFiles == touched = {}

\* One of the three file calls on an instance that exists: the prefix test, then
\* os.ReadDir, os.ReadFile or os.WriteFile on the joined path.
FileCall(op, path) ==
    /\ Cardinality(touched) < MaxFileCalls
    /\ touched' = IF PathAllowed(path) THEN touched \cup {<<op, FullPath(path)>>} ELSE touched
    /\ bcast' = <<>>
    /\ UNCHANGED <<events, nonFiles>>

ListFiles(path) == FileCall("list", path)
GetFileContent(path) == FileCall("read", path)
UpdateFileContent(path) == FileCall("write", path)

NextFiles ==
    \E path \in Names : ListFiles(path) \/ GetFileContent(path) \/ UpdateFileContent(path)

\* C22: every path a file call lists, reads or writes is the working tree of the
\* instance or lies below it; a path that resolves elsewhere is refused and
\* nothing is handed to the file system.
C22_FileAccessStaysInside ==
    \A t \in touched : t[2] = DestParts \/ Inside(t[2])

\* ------------------------------------------------------------------------
\* Backup round trip: the archive walk of CreateBackup, the wipe and the
\* extraction of RestoreBackup, as functions of the working tree
\* ------------------------------------------------------------------------
TreeNames == <<"d2", "e">>       \* entry names, in the lexical order of filepath.Walk
Contents == {1, 2}               \* file contents

DirNode(p) == [path |-> p, dir |-> TRUE, data |-> 0]
FileNode(p, c) == [path |-> p, dir |-> FALSE, data |-> c]
IsDirAt(tree, p) == DirNode(p) \in tree
IsFileAt(tree, p) == \E c \in Contents : FileNode(p, c) \in tree

\* the nodes a tree can grow by: a file or a directory in the working tree or in
\* one of its directories
Grow(tree) ==
    LET parents == {DestParts} \cup {n.path : n \in {m \in tree : m.dir}}
        free == {q \in {p \o <<TreeNames[i]>> :
                          p \in {r \in parents : Len(r) - Len(DestParts) < MaxTreeDepth},
                          i \in 1..Len(TreeNames)} :
                   ~IsDirAt(tree, q) /\ ~IsFileAt(tree, q)}
    IN {DirNode(q) : q \in free} \cup {FileNode(q, c) : q \in free, c \in Contents}

RECURSIVE TreesUpTo(_)
TreesUpTo(n) ==
    IF n = 0 THEN {{}}
    ELSE LET smaller == TreesUpTo(n - 1)
         IN smaller \cup UNION {{t \cup {x} : x \in Grow(t)} : t \in smaller}

Trees == TreesUpTo(MaxNodes)
StaleTrees == TreesUpTo(MaxStale)

\* filepath.Rel(server.DataPath, path)
Rel(p) == SubSeq(p, Len(DestParts) + 1, Len(p))

\* zipWriter.Create(relPath) mistaken for the directory entry: no trailing separator
EntryNameNoSeparator(relPath, isDir) == relPath

\* the name of an archive entry: relPath + "/" for a directory, relPath for a file
EntryName(relPath, isDir) == IF isDir THEN relPath \o <<"">> ELSE relPath

\* FileInfo().IsDir() of an archive entry: its name ends with the separator
EntryIsDir(name) == name # <<>> /\ name[Len(name)] = ""

\* filepath.Walk(server.DataPath, ...) of CreateBackup: the entries written for
\* the children of dir from the i-th name on, a directory before its content
RECURSIVE WalkFrom(_, _, _)
WalkFrom(tree, dir, i) ==
    IF i > Len(TreeNames) THEN <<>>
    ELSE LET p == dir \o <<TreeNames[i]>>
             here == IF IsDirAt(tree, p)
                     THEN <<[name |-> EntryName(Rel(p), TRUE), data |-> 0]>>
                              \o WalkFrom(tree, p, 1)
                     ELSE IF IsFileAt(tree, p)
                     THEN <<[name |-> EntryName(Rel(p), FALSE),
                             data |-> (CHOOSE c \in Contents : FileNode(p, c) \in tree)]>>
                     ELSE <<>>
         IN here \o WalkFrom(tree, dir, i + 1)

Walk(tree) == WalkFrom(tree, DestParts, 1)

IsPathPrefix(p, q) == Len(p) <= Len(q) /\ SubSeq(q, 1, Len(p)) = p

\* os.ReadDir(server.DataPath) and os.RemoveAll of each entry it lists
WipeTree(tree) ==
    LET top == {n.path : n \in {m \in tree : Len(m.path) = Len(DestParts) + 1}}
    IN {n \in tree : ~\E d \in top : IsPathPrefix(d, n.path)}

\* os.MkdirAll(p) in a tree: the missing ancestors and p become directories, up
\* to the first component that is a file
MkdirAllIn(tree, p) ==
    LET below == {SubSeq(p, 1, n) : n \in (Len(DestParts) + 1)..Len(p)}
        files == {q \in below : IsFileAt(tree, q)}
        made == {q \in below : \A f \in files : Len(q) < Len(f)}
    IN [tree |-> tree \cup {DirNode(q) : q \in made}, ok |-> files = {}]

\* one iteration of the extraction loop of RestoreBackup on the tree
ExtractInto(tree, entry) ==
    LET fpath == Join(DestParts, entry.name)
    IN IF ~ZipSlipOk(DestParts, entry.name) THEN [tree |-> tree, ok |-> FALSE]
       ELSE IF EntryIsDir(entry.name) THEN [tree |-> MkdirAllIn(tree, fpath).tree, ok |-> TRUE]
       ELSE LET made == MkdirAllIn(tree, Dir(fpath))
            IN IF ~made.ok THEN made
               ELSE IF IsDirAt(made.tree, fpath) THEN [tree |-> made.tree, ok |-> FALSE]
               ELSE [tree |-> {n \in made.tree : n.path # fpath}
                                  \cup {FileNode(fpath, entry.data)},
                     ok |-> TRUE]

\* the extraction loop: it returns at the first entry that fails
RECURSIVE ExtractAll(_, _)
ExtractAll(tree, entries) ==
    IF entries = <<>> THEN [tree |-> tree, ok |-> TRUE]
    ELSE LET r == ExtractInto(tree, Head(entries))
         IN IF r.ok THEN ExtractAll(r.tree, Tail(entries)) ELSE r

\* the wipe and the extraction of RestoreBackup
RestoreTree(tree, entries) == ExtractAll(WipeTree(tree), entries)

InitRoundTrip ==
    \E w \in Trees :
        rt = [pc |-> "idle", w |-> w, entries |-> <<>>, stale |-> {}, out |-> {}, ok |-> FALSE]

\* no working tree under study
InitRoundTripIdle == rt = [pc |-> "none"]

\* CreateBackup of the working tree w
RoundTripCreate ==
    /\ rt.pc = "idle"
    /\ rt' = [rt EXCEPT !.pc = "archived", !.entries = Walk(rt.w)]
    /\ bcast' = <<>>
    /\ UNCHANGED <<events, nonRoundTrip>>

\* RestoreBackup of that archive into a working tree that has changed since
RoundTripRestore(stale) ==
    /\ rt.pc = "archived"
    /\ LET r == RestoreTree(stale, rt.entries)
       IN rt' = [rt EXCEPT !.pc = "restored", !.stale = stale, !.out = r.tree, !.ok = r.ok]
    /\ bcast' = <<>>
    /\ UNCHANGED <<events, nonRoundTrip>>

NextRoundTrip == RoundTripCreate \/ \E stale \in StaleTrees : RoundTripRestore(stale)

\* C23: a backup of a working tree W of files, nested and empty directories,
\* restored into the instance, succeeds and leaves a working tree equal to W,
\* whatever the tree contained when the restore began.
C23_RoundTrip == rt.pc = "restored" => (rt.ok /\ rt.out = rt.w)

\* a tree with an empty directory and a nested file restored over other content
C23_Witness ==
    /\ rt.pc = "restored"
    /\ rt.stale # {}
    /\ \E n \in rt.w : n.dir /\ ~\E m \in rt.w : m.path # n.path /\ IsPathPrefix(n.path, m.path)
    /\ \E n \in rt.w : ~n.dir /\ Len(n.path) = Len(DestParts) + 2
    /\ rt.out = rt.w

\* ------------------------------------------------------------------------
\* Settings (GetServerSettings, UpdateServerSettings)
\* ------------------------------------------------------------------------
Chars == {"k", " ", "="}
Strings(n) == UNION {[1..m -> Chars] : m \in 0..n}
SettingsMaps ==
    UNION {[D -> Strings(MaxValueLen)] :
             D \in {E \in SUBSET Strings(MaxKeyLen) : Cardinality(E) <= MaxSettings}}

\* the orders in which `range settings` can visit the keys
Orders(D) ==
    {o \in [1..Cardinality(D) -> D] : \A i, j \in 1..Cardinality(D) : i # j => o[i] # o[j]}

\* "# Minecraft server properties\n# Updated on <time>\n"
Header == <<"#", "p", "\n", "#", "u", "\n">>

\* fmt.Sprintf("%s=%s\n", key, value) for the keys in the order visited
RECURSIVE WriteLines(_, _)
WriteLines(settings, order) ==
    IF order = <<>> THEN <<>>
    ELSE Head(order) \o <<"=">> \o settings[Head(order)] \o <<"\n">>
             \o WriteLines(settings, Tail(order))

\* bufio.Scanner with the default split function: the lines of content
RECURSIVE ScanLines(_, _)
ScanLines(content, line) ==
    IF content = <<>> THEN (IF line = <<>> THEN <<>> ELSE <<line>>)
    ELSE IF Head(content) = "\n" THEN <<line>> \o ScanLines(Tail(content), <<>>)
    ELSE ScanLines(Tail(content), Append(line, Head(content)))

\* strings.TrimSpace
RECURSIVE TrimSpace(_)
TrimSpace(str) ==
    IF str = <<>> THEN str
    ELSE IF Head(str) = " " THEN TrimSpace(Tail(str))
    ELSE IF str[Len(str)] = " " THEN TrimSpace(SubSeq(str, 1, Len(str) - 1))
    ELSE str

\* strings.SplitN(line, "=", 2): the position of the first "=", 0 for none
SplitAt(line) ==
    IF \E i \in 1..Len(line) : line[i] = "="
    THEN CHOOSE i \in 1..Len(line) : line[i] = "=" /\ \A j \in 1..(i - 1) : line[j] # "="
    ELSE 0

\* the parsing loop of GetServerSettings
RECURSIVE ParseLines(_, _)
ParseLines(lines, settings) ==
    IF lines = <<>> THEN settings
    ELSE LET line == TrimSpace(Head(lines))
             i == SplitAt(line)
         IN IF line = <<>> \/ line[1] = "#" \/ i = 0
            THEN ParseLines(Tail(lines), settings)
            ELSE LET key == SubSeq(line, 1, i - 1)
                     value == SubSeq(line, i + 1, Len(line))
                 IN ParseLines(Tail(lines),
                               [q \in DOMAIN settings \cup {key} |->
                                   IF q = key THEN value ELSE settings[q]])

NoSettings == [q \in {} |-> <<>>]

\* props["enable-rcon"] = "true"; props["rcon.password"] = rconPassword;
\* props["rcon.port"] = RCONPort. A key and a value of these three are one
\* character of the model each; "pw" is the instance's stored password.
RconProps ==
    [q \in {<<"enable-rcon">>, <<"rcon.password">>, <<"rcon.port">>} |->
        IF q = <<"enable-rcon">> THEN <<"true">>
        ELSE IF q = <<"rcon.password">> THEN <<"pw">>
        ELSE <<RCONPort>>]

\* ensureRconInProperties on a working tree that has no server.properties:
\* os.Open fails, props holds the three entries only and they are written
\* in the order `range props` visits them.
EnsureRconLines(order) == WriteLines(RconProps, order)

\* The file CreateServerFromTemplate leaves, for one order of the map.
CreatedProperties ==
    EnsureRconLines(<<<<"enable-rcon">>, <<"rcon.password">>, <<"rcon.port">>>>)

\* The contents a file write or an archive brings: the file of a new
\* instance, the file of a settings update with no entry.
FileContents == {CreatedProperties, Header}

InitSettings ==
    /\ properties = CreatedProperties
    /\ sc = [pc |-> "idle"]

\* UpdateServerSettings(id, settings): the file is rewritten, the event is
\* appended and the instance restarted.
UpdateServerSettings(settings, order, dockerOk) ==
    /\ sc.pc = "idle"
    /\ pa.pc = "idle"
    /\ FreeProbers # {}
    /\ properties' = Header \o WriteLines(settings, order)
    /\ IF container = "gone" \/ ~dockerOk
       THEN /\ sc' = [pc |-> "put", put |-> settings, res |-> "failed"]
            /\ events' = Append(events, "server.settings.update")
            /\ bcast' = <<>>
            /\ UNCHANGED <<status, container, probers>>
       ELSE /\ sc' = [pc |-> "put", put |-> settings, res |-> "ok"]
            /\ ActionApplied("restart")
            /\ events' = events \o <<"server.settings.update", "server.restart">>
    /\ UNCHANGED <<rconBound, history, pa, nActions, recTasks, nRecTicks, nonSettings>>

\* GetServerSettings(id)
GetServerSettings ==
    /\ sc.pc = "put"
    /\ sc' = [pc |-> "got", put |-> sc.put, res |-> sc.res,
              got |-> ParseLines(ScanLines(properties, <<>>), NoSettings)]
    /\ bcast' = <<>>
    /\ UNCHANGED <<events, lifeRest, properties, nonSettings>>

\* UpdateFileContent(id, "server.properties", content): os.WriteFile, nothing else.
UpdateServerProperties(content) ==
    /\ properties' = content
    /\ bcast' = <<>>
    /\ UNCHANGED <<events, lifeRest, sc, nonSettings>>

\* PerformServerAction(id, "reinstall"): StopContainer, os.RemoveAll of every
\* entry of the working tree, StartContainer, then the status, the event and
\* the prober of a start. An error of either docker call returns at once.
Reinstall(stopOk, startOk) ==
    /\ pa.pc = "idle"
    /\ FreeProbers # {}
    /\ IF container = "gone" \/ ~stopOk
       THEN /\ bcast' = <<>>
            /\ UNCHANGED <<status, container, probers, events, properties>>
       ELSE /\ properties' = <<>>
            /\ IF ~startOk
               THEN /\ container' = ActionContainer("stop")
                    /\ bcast' = <<>>
                    /\ UNCHANGED <<status, probers, events>>
               ELSE /\ ActionApplied("restart")
                    /\ events' = Append(events, "server.reinstall")
    /\ UNCHANGED <<rconBound, history, pa, nActions, recTasks, nRecTicks, sc, nonSettings>>

\* RestoreBackup(id) as server.properties sees it: the event, the stop of an
\* instance that is up, the wipe of the working tree, the extraction of the
\* archive, which holds the file with this content, and the start.
RestoreBackupTree(content, stopOk, startOk) ==
    /\ pa.pc = "idle"
    /\ rs.pc = "idle"
    /\ FreeProbers # {}
    /\ nRestores < MaxRestores
    /\ nRestores' = nRestores + 1
    /\ IF status \in {"online", "starting"} /\ (container = "gone" \/ ~stopOk)
       THEN /\ events' = Append(events, "backup.restore.start")
            /\ bcast' = <<>>
            /\ UNCHANGED <<status, container, probers, properties>>
       ELSE /\ properties' = content
            /\ IF container = "gone" \/ ~startOk
               THEN /\ status' = IF status \in {"online", "starting"}
                                 THEN ActionStatus("stop") ELSE status
                    /\ container' = IF status \in {"online", "starting"}
                                    THEN ActionContainer("stop") ELSE container
                    /\ bcast' = IF status \in {"online", "starting"}
                                THEN <<ActionStatus("stop")>> ELSE <<>>
                    /\ events' = events \o <<"backup.restore.start">> \o
                                    (IF status \in {"online", "starting"}
                                     THEN <<"server.stop">> ELSE <<>>)
                    /\ UNCHANGED probers
               ELSE /\ ActionApplied("start")
                    /\ events' = events \o <<"backup.restore.start">> \o
                                    (IF status \in {"online", "starting"}
                                     THEN <<"server.stop">> ELSE <<>>) \o
                                    <<"server.start", "backup.restore.finish">>
    /\ UNCHANGED <<rconBound, history, pa, nActions, recTasks, nRecTicks, sc, rs,
                   nonSettingsRestore>>

NextSettings ==
    \/ \E settings \in SettingsMaps : \E order \in Orders(DOMAIN settings) :
         \E dockerOk \in BOOLEAN : UpdateServerSettings(settings, order, dockerOk)
    \/ GetServerSettings
    \/ \E content \in FileContents : UpdateServerProperties(content)
    \/ \E stopOk \in BOOLEAN, startOk \in BOOLEAN : Reinstall(stopOk, startOk)
    \/ \E content \in FileContents : \E stopOk \in BOOLEAN, startOk \in BOOLEAN :
         RestoreBackupTree(content, stopOk, startOk)

\* C24: GetServerSettings called after UpdateServerSettings(x) returns exactly
\* x, the same keys with the same values; the header lines add nothing.
C24_SettingsRoundTrip == sc.pc = "got" => sc.got = sc.put

\* The three remote-console entries as a reader of the file finds them.
RconConfigured(content) ==
    LET found == ParseLines(ScanLines(content, <<>>), NoSettings)
    IN \A q \in DOMAIN RconProps : q \in DOMAIN found /\ found[q] = RconProps[q]

\* C40: the server.properties of an instance keeps enable-rcon=true,
\* rcon.port=25575 and rcon.password equal to the stored password after every
\* operation that rewrites the file or the working tree: a settings update,
\* a file write, a reinstall, a restore.
C40_RconKept == RconConfigured(properties)

\* ------------------------------------------------------------------------
\* Host ports (FindAvailablePort)
\* ------------------------------------------------------------------------
\* the ports next to the end of the range, and the bases the scan starts from
PortWindow == (PortLimit - MaxPorts)..(PortLimit - 1)
PortBases == PortWindow \cup {PortLimit}

InitPorts ==
    /\ busy = {}
    /\ allocs = <<>>

\* FindAvailablePort(startPort): it probes and binds nothing when it returns
FindAvailablePortCall(startPort) ==
    /\ Len(allocs) < MaxPortCalls
    /\ allocs' = Append(allocs, [base |-> startPort, port |-> FirstFreePort(startPort, busy)])
    /\ bcast' = <<>>
    /\ UNCHANGED <<busy, events, nonPorts>>

\* a process of the host, a started container among them, binds a port
PortBound(p) ==
    /\ p \notin busy
    /\ busy' = busy \cup {p}
    /\ bcast' = <<>>
    /\ UNCHANGED <<allocs, events, nonPorts>>

\* a process of the host closes its listener
PortReleased(p) ==
    /\ p \in busy
    /\ busy' = busy \ {p}
    /\ bcast' = <<>>
    /\ UNCHANGED <<allocs, events, nonPorts>>

NextPorts ==
    \/ \E startPort \in PortBases : FindAvailablePortCall(startPort)
    \/ \E p \in PortWindow : PortBound(p) \/ PortReleased(p)

\* a call returns the lowest port from its base to PortLimit - 1 on which the
\* bind succeeds, and the error when there is none
C25_LowestFree ==
    [][\A startPort \in PortBases :
         (Len(allocs') = Len(allocs) + 1 /\ allocs'[Len(allocs')].base = startPort)
           => LET port == allocs'[Len(allocs')].port
                  free == {p \in PortWindow : p >= startPort /\ p \notin busy}
              IN IF free = {} THEN port = 0
                 ELSE port \in free /\ \A q \in free : port <= q]_vars

\* C25: two calls of the allocator from the same base B, one after the other,
\* with B and B + 1 both free, return B and then B + 1; every call returns the
\* lowest port from its base to 65534 on which a bind succeeds, and the error
\* when there is none.
C25_TwoCallsAdvance ==
    [][(/\ Len(allocs) >= 1
        /\ Len(allocs') = Len(allocs) + 1
        /\ allocs'[Len(allocs')].base = allocs[Len(allocs)].base
        /\ allocs[Len(allocs)].port = allocs[Len(allocs)].base
        /\ {allocs[Len(allocs)].base, allocs[Len(allocs)].base + 1} \cap busy = {}
        /\ allocs[Len(allocs)].base + 1 < PortLimit)
          => allocs'[Len(allocs')].port = allocs[Len(allocs)].base + 1]_vars

\* ------------------------------------------------------------------------
\* High-CPU alerts (StatUpdater.checkAndAlertForHighCPU)
\* ------------------------------------------------------------------------
\* const highCpuThreshold = 90.0
HighCpuThreshold == 90

\* const alertCooldown = 15 * time.Minute, in the unit of alertNow.
AlertCooldown == 2

\* The CPU figures docker.CalculateCPUPercent returns in the model.
CpuReadings == {HighCpuThreshold, HighCpuThreshold + 1}

AlertTaskIds == 1..MaxAlertTasks

IdleAlertTask == [pc |-> "idle", cpu |-> 0]

InitAlerts ==
    /\ alertNow = 0
    /\ highCpuAlert = Never
    /\ cpuAlerts = <<>>
    /\ cpuTasks = [t \in AlertTaskIds |-> IdleAlertTask]

\* An update task of the instance, started by a tick of updateAllServerStats,
\* received stats and calls checkAndAlertForHighCPU. The tasks of successive
\* ticks are goroutines of their own; nothing orders them.
AlertStatsArrive(t, cpu) ==
    /\ cpuTasks[t].pc = "idle"
    /\ Len(cpuAlerts) < MaxAlerts
    /\ cpuTasks' = [cpuTasks EXCEPT ![t] = [pc |-> "check", cpu |-> cpu]]
    /\ UNCHANGED <<alertNow, highCpuAlert, cpuAlerts>>
    /\ UNCHANGED nonAlerts

\* checkAndAlertForHighCPU up to its returns: the threshold test and the
\* read of su.highCpuAlert[server.ID] with the cooldown test.
CheckHighCPU(t) ==
    /\ cpuTasks[t].pc = "check"
    /\ cpuTasks' = [cpuTasks EXCEPT ![t] =
          IF cpuTasks[t].cpu > HighCpuThreshold
             /\ ~(highCpuAlert # Never /\ alertNow - highCpuAlert < AlertCooldown)
          THEN [cpuTasks[t] EXCEPT !.pc = "alert"]
          ELSE IdleAlertTask]
    /\ UNCHANGED <<alertNow, highCpuAlert, cpuAlerts>>
    /\ UNCHANGED nonAlerts

\* checkAndAlertForHighCPU from CreateEvent("system.alert.cpu", ...) to the
\* write su.highCpuAlert[server.ID] = time.Now().
AlertHighCPU(t) ==
    /\ cpuTasks[t].pc = "alert"
    /\ cpuAlerts' = Append(cpuAlerts, [at |-> alertNow, cpu |-> cpuTasks[t].cpu])
    /\ highCpuAlert' = alertNow
    /\ cpuTasks' = [cpuTasks EXCEPT ![t] = IdleAlertTask]
    /\ UNCHANGED alertNow
    /\ UNCHANGED nonAlerts

AlertTimePasses ==
    /\ alertNow < MaxAlertTime
    /\ alertNow' = alertNow + 1
    /\ UNCHANGED <<highCpuAlert, cpuAlerts, cpuTasks>>
    /\ UNCHANGED nonAlerts

NextAlerts ==
    \/ \E t \in AlertTaskIds, cpu \in CpuReadings : AlertStatsArrive(t, cpu)
    \/ \E t \in AlertTaskIds : CheckHighCPU(t)
    \/ \E t \in AlertTaskIds : AlertHighCPU(t)
    \/ AlertTimePasses

\* C35: a system.alert.cpu event is appended for an instance only when its
\* CPU % exceeds 90, and any two such events of the instance are at least 15
\* minutes apart, also when update tasks of successive ticks run concurrently
\* on the shared alert table.
C35_AlertsSpaced ==
    /\ \A n \in DOMAIN cpuAlerts : cpuAlerts[n].cpu > HighCpuThreshold
    /\ \A m, n \in DOMAIN cpuAlerts :
          m < n => cpuAlerts[n].at - cpuAlerts[m].at >= AlertCooldown

\* ------------------------------------------------------------------------
\* Archive file names (BackupService.CreateBackup, DeleteBackup)
\* ------------------------------------------------------------------------
\* The resolution of time.Now() against the second that
\* Format("20060102150405") keeps.
TicksPerSecond == 2

\* fmt.Sprintf("%s_%s.zip", serverID, time.Now().Format("20060102150405")) for
\* the one instance of the model: the name is the second the time falls in.
BackupFileName(now) == now \div TicksPerSecond

InitArchive ==
    /\ archiveNow = 0
    /\ archiveFiles = {}
    /\ backupTable = <<>>

\* A CreateBackup call that succeeds, from the operator or from the
\* scheduler's goroutine: os.Create makes the file or truncates the one of
\* that name, and the row is inserted with a fresh identifier.
CreateBackupNamed ==
    /\ Len(backupTable) < MaxNamedBackups
    /\ archiveFiles' = archiveFiles \cup {BackupFileName(archiveNow)}
    /\ backupTable' = Append(backupTable, [path |-> BackupFileName(archiveNow), live |-> TRUE])
    /\ UNCHANGED archiveNow
    /\ UNCHANGED nonArchive

\* DeleteBackup: os.Remove(backup.Path), then DELETE FROM backups WHERE id = ?.
DeleteBackup(id) ==
    /\ id \in DOMAIN backupTable
    /\ backupTable[id].live
    /\ archiveFiles' = archiveFiles \ {backupTable[id].path}
    /\ backupTable' = [backupTable EXCEPT ![id].live = FALSE]
    /\ UNCHANGED archiveNow
    /\ UNCHANGED nonArchive

ArchiveTimePasses ==
    /\ archiveNow < MaxArchiveTime
    /\ archiveNow' = archiveNow + 1
    /\ UNCHANGED <<archiveFiles, backupTable>>
    /\ UNCHANGED nonArchive

NextArchive ==
    \/ CreateBackupNamed
    \/ \E id \in 1..MaxNamedBackups : DeleteBackup(id)
    \/ ArchiveTimePasses

LiveBackups == {id \in DOMAIN backupTable : backupTable[id].live}

\* C38: distinct Backup rows refer to distinct archive files: two
\* CreateBackup calls for one instance, also concurrent ones or ones within the
\* same second, never write to the same archive path, so that deleting one
\* backup never removes the archive of another.
C38_DistinctArchives ==
    /\ \A a, b \in LiveBackups : a # b => backupTable[a].path # backupTable[b].path
    /\ \A a \in LiveBackups : backupTable[a].path \in archiveFiles

\* ------------------------------------------------------------------------
\* Specifications
\* ------------------------------------------------------------------------
InitOfHub == InitLifeIdle /\ InitHub /\ InitBackup /\ InitZip /\ InitSched /\ InitProv /\ InitTask /\ InitRestore /\ InitLogs /\ InitCmd /\ InitFiles /\ InitRoundTripIdle /\ InitSettings /\ InitPorts /\ InitAlerts /\ InitArchive

SpecHub == InitOfHub /\ [][NextHub]_vars

\* Go's select serves every channel operation that stays ready.
SpecHubFair ==
    /\ SpecHub
    /\ WF_vars(HubBroadcast)
    /\ \A c \in Sessions : WF_vars(HubRegister(c)) /\ WF_vars(HubUnregister(c))

InitOfBackup == InitLifeReady /\ InitHubIdle /\ InitBackup /\ InitZip /\ InitSched /\ InitProv /\ InitTask /\ InitRestore /\ InitLogs /\ InitCmd /\ InitFiles /\ InitRoundTripIdle /\ InitSettings /\ InitPorts /\ InitAlerts /\ InitArchive

SpecBackup == InitOfBackup /\ [][NextBackup]_vars

InitOfZip == InitLifeIdle /\ InitHubIdle /\ InitBackup /\ InitZip /\ InitSched /\ InitProv /\ InitTask /\ InitRestore /\ InitLogs /\ InitCmd /\ InitFiles /\ InitRoundTripIdle /\ InitSettings /\ InitPorts /\ InitAlerts /\ InitArchive

SpecZip == InitOfZip /\ [][NextZip]_vars

InitOfSched == InitLifeIdle /\ InitHubIdle /\ InitBackup /\ InitZip /\ InitSched /\ InitProv /\ InitTask /\ InitRestore /\ InitLogs /\ InitCmd /\ InitFiles /\ InitRoundTripIdle /\ InitSettings /\ InitPorts /\ InitAlerts /\ InitArchive

SpecSched == InitOfSched /\ [][NextSched]_vars

InitOfProv == InitLifeIdle /\ InitHubIdle /\ InitBackup /\ InitZip /\ InitSched /\ InitProv /\ InitTask /\ InitRestore /\ InitLogs /\ InitCmd /\ InitFiles /\ InitRoundTripIdle /\ InitSettings /\ InitPorts /\ InitAlerts /\ InitArchive

SpecProv == InitOfProv /\ [][NextProv]_vars

InitOfTask == InitLifeReady /\ InitHubIdle /\ InitBackup /\ InitZip /\ InitSched /\ InitProv /\ InitTask /\ InitRestore /\ InitLogs /\ InitCmd /\ InitFiles /\ InitRoundTripIdle /\ InitSettings /\ InitPorts /\ InitAlerts /\ InitArchive

SpecTask == InitOfTask /\ [][NextTask]_vars

InitOfRestore ==
    /\ InitLifeReady /\ InitHubIdle /\ InitBackup /\ InitZip /\ InitSched /\ InitProv /\ InitTask
    /\ InitRestore /\ InitLogs /\ InitCmd /\ InitFiles /\ InitRoundTripIdle /\ InitSettings /\ InitPorts /\ InitAlerts /\ InitArchive

SpecRestore == InitOfRestore /\ [][NextRestore]_vars

InitOfLogs ==
    /\ InitLifeIdle /\ InitHubIdle /\ InitBackup /\ InitZip /\ InitSched /\ InitProv /\ InitTask
    /\ InitRestore /\ InitLogs /\ InitCmd /\ InitFiles /\ InitRoundTripIdle /\ InitSettings /\ InitPorts /\ InitAlerts /\ InitArchive

SpecLogs == InitOfLogs /\ [][NextLogs]_vars

InitOfCmd ==
    /\ InitLifeReady /\ InitHubIdle /\ InitBackup /\ InitZip /\ InitSched /\ InitProv /\ InitTask
    /\ InitRestore /\ InitLogs /\ InitCmd /\ InitFiles /\ InitRoundTripIdle /\ InitSettings /\ InitPorts /\ InitAlerts /\ InitArchive

SpecCmd == InitOfCmd /\ [][NextCmd]_vars

InitOfFiles == InitLifeIdle /\ InitHubIdle /\ InitBackup /\ InitZip /\ InitSched /\ InitProv /\ InitTask
    /\ InitRestore /\ InitLogs /\ InitCmd /\ InitFiles /\ InitRoundTripIdle /\ InitSettings /\ InitPorts /\ InitAlerts /\ InitArchive
SpecFiles == InitOfFiles /\ [][NextFiles]_vars

InitOfRoundTrip == InitLifeIdle /\ InitHubIdle /\ InitBackup /\ InitZip /\ InitSched /\ InitProv /\ InitTask
    /\ InitRestore /\ InitLogs /\ InitCmd /\ InitFiles /\ InitRoundTrip /\ InitSettings /\ InitPorts /\ InitAlerts /\ InitArchive
SpecRoundTrip == InitOfRoundTrip /\ [][NextRoundTrip]_vars

InitOfSettings == InitLifeReady /\ InitHubIdle /\ InitBackup /\ InitZip /\ InitSched /\ InitProv /\ InitTask
    /\ InitRestore /\ InitLogs /\ InitCmd /\ InitFiles /\ InitRoundTripIdle /\ InitSettings /\ InitPorts /\ InitAlerts /\ InitArchive
SpecSettings == InitOfSettings /\ [][NextSettings]_vars

InitOfPorts == InitLifeIdle /\ InitHubIdle /\ InitBackup /\ InitZip /\ InitSched /\ InitProv /\ InitTask
    /\ InitRestore /\ InitLogs /\ InitCmd /\ InitFiles /\ InitRoundTripIdle /\ InitSettings /\ InitPorts /\ InitAlerts /\ InitArchive
SpecPorts == InitOfPorts /\ [][NextPorts]_vars

InitOfAlerts == InitLifeIdle /\ InitHubIdle /\ InitBackup /\ InitZip /\ InitSched /\ InitProv /\ InitTask
    /\ InitRestore /\ InitLogs /\ InitCmd /\ InitFiles /\ InitRoundTripIdle /\ InitSettings /\ InitPorts /\ InitAlerts /\ InitArchive
SpecAlerts == InitOfAlerts /\ [][NextAlerts]_vars

InitOfArchive == InitLifeIdle /\ InitHubIdle /\ InitBackup /\ InitZip /\ InitSched /\ InitProv /\ InitTask
    /\ InitRestore /\ InitLogs /\ InitCmd /\ InitFiles /\ InitRoundTripIdle /\ InitSettings /\ InitPorts /\ InitAlerts /\ InitArchive
SpecArchive == InitOfArchive /\ [][NextArchive]_vars

Init == InitLife /\ InitHubIdle /\ InitBackup /\ InitZip /\ InitSched /\ InitProv /\ InitTask /\ InitRestore /\ InitLogs /\ InitCmd /\ InitFiles /\ InitRoundTripIdle /\ InitSettings /\ InitPorts /\ InitAlerts /\ InitArchive
Next == NextLife
Spec == Init /\ [][Next]_vars

\* The goroutines that were started keep running: PerformServerAction returns,
\* a prober's ticker and its 3-minute context fire, and an update task of the
\* reconciler finishes. Nothing obliges an operator to call or a container to
\* exit.
SpecLifeFair ==
    /\ Spec
    /\ WF_vars(PerformServerActionFinish)
    /\ \A p \in ProberIds :
          WF_vars(\E ok \in BOOLEAN : ProberTick(p, ok)) /\ WF_vars(ProberTimeout(p))
    /\ \A t \in RecTaskIds : WF_vars(\E ok \in BOOLEAN : UpdateSingleServer(t, ok))

====
